---- MODULE Spec2Model ----
(***************************************************************************)
(* proofstore: the storage backend of src/backend/core.py as a state       *)
(* machine.  One SQLite connection works on the three tables elements,     *)
(* element_tags and element_links; every repository function is one       *)
(* action.  The connection's view of the tables (conn) and the committed   *)
(* content of the database file (disk) are kept apart, because Python's    *)
(* sqlite3 opens a transaction before the first INSERT/UPDATE/DELETE of a  *)
(* call and only conn.commit() makes it durable.                           *)
(***************************************************************************)
EXTENDS Integers, Sequences, FiniteSets, TLC

\* ------------------------------------------------------------------ bounds
MaxElems == 2
MaxLinks == 2
MaxTime == 1

ElemIds == 1..MaxElems
LinkIds == 1..MaxLinks

\* --------------------------------------------------------------- constants
ELEMENT_TYPES ==
  {"definition", "axiom", "postulate", "lemma", "proposition", "theorem",
   "corollary", "proof", "example", "counterexample", "remark"}

FORMATS == {"plain", "markdown", "html", "latex"}

LINK_RELATIONS ==
  {"proves", "uses", "implies", "equivalent_to", "example_of",
   "counterexample_to", "related"}

STATEMENTS ==
  {"axiom", "postulate", "lemma", "proposition", "theorem", "corollary"}

DERIVED_STATEMENTS == {"lemma", "proposition", "theorem", "corollary"}

STATEMENT_OR_DEF == STATEMENTS \cup {"definition"}

STATEMENT_LIKE_FOR_EQ ==
  {"definition", "lemma", "proposition", "theorem", "corollary"}

\* A REL_RULES with the two sides of "proves" exchanged.
REL_RULES_ProvesReversed ==
  [proves            |-> <<DERIVED_STATEMENTS, {"proof"}>>,
   uses              |-> <<STATEMENTS \cup {"proof"}, STATEMENT_OR_DEF>>,
   example_of        |-> <<{"example"}, STATEMENT_LIKE_FOR_EQ>>,
   counterexample_to |-> <<{"counterexample"}, STATEMENT_LIKE_FOR_EQ>>,
   equivalent_to     |-> <<STATEMENT_LIKE_FOR_EQ, STATEMENT_LIKE_FOR_EQ>>,
   implies           |-> <<STATEMENTS, STATEMENTS>>,
   related           |-> <<ELEMENT_TYPES, ELEMENT_TYPES>>]

\* rel -> <<allowed source types, allowed destination types>>
REL_RULES ==
  [proves            |-> <<{"proof"}, DERIVED_STATEMENTS>>,
   uses              |-> <<STATEMENTS \cup {"proof"}, STATEMENT_OR_DEF>>,
   example_of        |-> <<{"example"}, STATEMENT_LIKE_FOR_EQ>>,
   counterexample_to |-> <<{"counterexample"}, STATEMENT_LIKE_FOR_EQ>>,
   equivalent_to     |-> <<STATEMENT_LIKE_FOR_EQ, STATEMENT_LIKE_FOR_EQ>>,
   implies           |-> <<STATEMENTS, STATEMENTS>>,
   related           |-> <<ELEMENT_TYPES, ELEMENT_TYPES>>]

\* _normalize_tag: len(t) > 128
MaxTagLen == 128

\* ------------------------------------------------------------------- values
\* Text (a title, a body, a tag) is a sequence of one-character strings.
Whitespace == {" ", "\t", "\n"}

\* An Optional[...] argument: <<>> is None, <<x>> is the value x.
None == <<>>
Some(x) == <<x>>
IsNone(o) == Len(o) = 0
Val(o) == o[1]

\* The outcome of a call: no exception, or the exception class and message.
Ok == [exc |-> "none", msg |-> ""]
ValueError(m) == [exc |-> "ValueError", msg |-> m]
IntegrityError(m) == [exc |-> "sqlite3.IntegrityError", msg |-> m]

RECURSIVE lstrip(_)
lstrip(s) ==
  IF s = <<>> THEN <<>>
  ELSE IF Head(s) \in Whitespace THEN lstrip(Tail(s)) ELSE s

RECURSIVE rstrip(_)
rstrip(s) ==
  IF s = <<>> THEN <<>>
  ELSE IF s[Len(s)] \in Whitespace THEN rstrip(SubSeq(s, 1, Len(s) - 1)) ELSE s

\* str.strip()
strip(s) == rstrip(lstrip(s))

\* ------------------------------------------------------------------ schema
\* The tables of one database: sets of rows.
EmptyDb == [elements |-> {}, element_tags |-> {}, element_links |-> {}]

\* PRAGMA foreign_keys = ON, off.
foreign_keys_Off == FALSE

\* connect(): PRAGMA foreign_keys = ON
foreign_keys == TRUE

\* sqlite3.connect(..., isolation_level=None): every statement commits itself.
autocommit_On == TRUE

\* connect(): sqlite3.connect(str(db_path)) keeps the default isolation_level:
\* the first INSERT/UPDATE/DELETE opens a transaction that lasts until
\* conn.commit().
autocommit == FALSE

HasElement(d, id) == \E e \in d.elements : e.id = id
ElementRow(d, id) == CHOOSE e \in d.elements : e.id = id
HasLink(d, id) == \E l \in d.element_links : l.id = id
LinkRow(d, id) == CHOOSE l \in d.element_links : l.id = id

\* The unique index never consulted.
uq_links_src_dst_rel_Missing(links, row) == TRUE

\* CREATE UNIQUE INDEX uq_links_src_dst_rel ON element_links(src_id, dst_id, rel):
\* may `row` be stored beside the rows `links` (the other rows of the table)?
uq_links_src_dst_rel(links, row) ==
  \A l \in links :
    ~(l.src_id = row.src_id /\ l.dst_id = row.dst_id /\ l.rel = row.rel)

\* FOREIGN KEY (...) REFERENCES elements(id), checked when the statement ends.
fk_ok(d, element_id) == foreign_keys => HasElement(d, element_id)

\* A cascade that forgets the links pointing at the element.
delete_cascade_SrcOnly(d, element_id) ==
  [elements      |-> {e \in d.elements : e.id # element_id},
   element_tags  |-> {t \in d.element_tags : t.element_id # element_id},
   element_links |-> {l \in d.element_links : l.src_id # element_id}]

\* A cascade that takes every link with it.
delete_cascade_AllLinks(d, element_id) ==
  [elements      |-> {e \in d.elements : e.id # element_id},
   element_tags  |-> {t \in d.element_tags : t.element_id # element_id},
   element_links |-> {}]

\* DELETE FROM elements WHERE id = ?, with the ON DELETE CASCADE of the
\* element_tags and element_links foreign keys.
delete_cascade(d, element_id) ==
  [elements      |-> {e \in d.elements : e.id # element_id},
   element_tags  |->
     IF foreign_keys
     THEN {t \in d.element_tags : t.element_id # element_id}
     ELSE d.element_tags,
   element_links |->
     IF foreign_keys
     THEN {l \in d.element_links :
             l.src_id # element_id /\ l.dst_id # element_id}
     ELSE d.element_links]

\* A database file in which init_db has not run: it has no table.
NoTables == [name \in {} |-> {}]

\* ---------------------------------------------------------------- results
\* What a repository call leaves behind: the exception (or Ok), the return
\* value, the connection's tables, and whether conn.commit() was reached.
\* A returned bool is the int it is in Python (True == 1), None is <<>>.
Bool(b) == IF b THEN 1 ELSE 0
Raised(err, d) == [err |-> err, ret |-> None, conn |-> d, commit |-> FALSE]
Returned(ret, d, commit) ==
  [err |-> Ok, ret |-> ret, conn |-> d, commit |-> commit]

\* ------------------------------------------------------ validation helpers
\* A validator that accepts any type.
validate_type_Any(t) == Ok

validate_type(t) ==
  IF t \notin ELEMENT_TYPES THEN ValueError("Invalid type") ELSE Ok

validate_format(fmt) ==
  IF fmt \notin FORMATS THEN ValueError("Invalid format") ELSE Ok

validate_rel(rel) ==
  IF rel \notin LINK_RELATIONS THEN ValueError("Invalid rel") ELSE Ok

\* SELECT type FROM elements WHERE id = ?  (None when there is no row)
fetch_type(d, element_id) ==
  IF HasElement(d, element_id) THEN Some(ElementRow(d, element_id).type) ELSE None

\* A validator without the src_id == dst_id test.
validate_link_semantics_NoSelfTest(d, src_id, dst_id, rel) ==
  IF validate_rel(rel) # Ok THEN validate_rel(rel)
  ELSE
    LET src_type == fetch_type(d, src_id)
        dst_type == fetch_type(d, dst_id)
    IN  IF IsNone(src_type) THEN ValueError("src_id not found")
        ELSE IF IsNone(dst_type) THEN ValueError("dst_id not found")
        ELSE IF Val(src_type) \notin REL_RULES[rel][1]
          THEN ValueError("rel requires src type in allowed_src")
        ELSE IF Val(dst_type) \notin REL_RULES[rel][2]
          THEN ValueError("rel requires dst type in allowed_dst")
        ELSE Ok

\* A validate_link_semantics that looks at the destination before the source.
validate_link_semantics_DstFirst(d, src_id, dst_id, rel) ==
  IF validate_rel(rel) # Ok THEN validate_rel(rel)
  ELSE IF src_id = dst_id THEN ValueError("src_id and dst_id must differ")
  ELSE
    LET src_type == fetch_type(d, src_id)
        dst_type == fetch_type(d, dst_id)
    IN  IF IsNone(dst_type) THEN ValueError("dst_id not found")
        ELSE IF IsNone(src_type) THEN ValueError("src_id not found")
        ELSE IF Val(dst_type) \notin REL_RULES[rel][2]
          THEN ValueError("rel requires dst type in allowed_dst")
        ELSE IF Val(src_type) \notin REL_RULES[rel][1]
          THEN ValueError("rel requires src type in allowed_src")
        ELSE Ok

\* The exception validate_link_semantics raises, or Ok.
validate_link_semantics(d, src_id, dst_id, rel) ==
  IF validate_rel(rel) # Ok THEN validate_rel(rel)
  ELSE IF src_id = dst_id THEN ValueError("src_id and dst_id must differ")
  ELSE
    LET src_type == fetch_type(d, src_id)
        dst_type == fetch_type(d, dst_id)
    IN  IF IsNone(src_type) THEN ValueError("src_id not found")
        ELSE IF IsNone(dst_type) THEN ValueError("dst_id not found")
        ELSE IF Val(src_type) \notin REL_RULES[rel][1]
          THEN ValueError("rel requires src type in allowed_src")
        ELSE IF Val(dst_type) \notin REL_RULES[rel][2]
          THEN ValueError("rel requires dst type in allowed_dst")
        ELSE Ok

\* ------------------------------------------------------------------- tags
\* A normalisation that tests the trimmed tag and returns the tag as given.
normalize_tag_Untrimmed(tag) ==
  LET t == strip(tag)
  IN  IF t = <<>> THEN [err |-> ValueError("tag is empty"), t |-> tag]
      ELSE IF Len(t) > MaxTagLen
        THEN [err |-> ValueError("tag too long (max 128)"), t |-> tag]
      ELSE [err |-> Ok, t |-> tag]

\* [err, t]: the exception _normalize_tag raises (or Ok) and the trimmed tag.
normalize_tag(tag) ==
  LET t == strip(tag)
  IN  IF t = <<>> THEN [err |-> ValueError("tag is empty"), t |-> t]
      ELSE IF Len(t) > MaxTagLen
        THEN [err |-> ValueError("tag too long (max 128)"), t |-> t]
      ELSE [err |-> Ok, t |-> t]

RECURSIVE first_seen(_, _)
\* the loop of _normalize_tags: keep each tag where it is first seen
first_seen(norm, out) ==
  IF norm = <<>> THEN out
  ELSE IF \E i \in 1..Len(out) : out[i] = Head(norm)
    THEN first_seen(Tail(norm), out)
    ELSE first_seen(Tail(norm), Append(out, Head(norm)))

\* [err, norm]: the first exception of the comprehension, or the list.
normalize_tags(tags) ==
  LET bad == {i \in 1..Len(tags) : normalize_tag(tags[i]).err # Ok}
  IN  IF bad # {}
      THEN [err  |-> normalize_tag(tags[CHOOSE i \in bad : \A j \in bad : i <= j]).err,
            norm |-> <<>>]
      ELSE [err  |-> Ok,
            norm |-> first_seen([i \in 1..Len(tags) |-> normalize_tag(tags[i]).t], <<>>)]

HasTag(d, element_id, t) ==
  \E r \in d.element_tags : r.element_id = element_id /\ r.tag = t

WithTags(d, rows) == [d EXCEPT !.element_tags = rows]

RECURSIVE insert_tags_OrReplace(_, _, _, _, _, _)
\* The INSERT loop with INSERT OR REPLACE in the place of INSERT OR IGNORE:
\* a tag the element has is stored again, with the new created_at.
insert_tags_OrReplace(d, element_id, norm, ts, or_ignore, n) ==
  IF norm = <<>> THEN [err |-> Ok, conn |-> d, n |-> n]
  ELSE IF HasTag(d, element_id, Head(norm)) /\ ~or_ignore
    THEN [err  |-> IntegrityError("UNIQUE constraint failed: element_tags"),
          conn |-> d, n |-> n]
  ELSE IF ~fk_ok(d, element_id)
    THEN [err |-> IntegrityError("FOREIGN KEY constraint failed"),
          conn |-> d, n |-> n]
  ELSE insert_tags_OrReplace(
         WithTags(d,
           {r \in d.element_tags :
              ~(r.element_id = element_id /\ r.tag = Head(norm))}
           \cup {[element_id |-> element_id, tag |-> Head(norm), created_at |-> ts]}),
         element_id, Tail(norm), ts, or_ignore, n + 1)

RECURSIVE insert_tags(_, _, _, _, _, _)
\* The INSERT loop of add_tags (or_ignore) and of set_tags: [err, conn, n],
\* n the sum of the rowcounts.  A failing INSERT raises and ends the loop;
\* the rows stored before it stay in the open transaction.
insert_tags(d, element_id, norm, ts, or_ignore, n) ==
  IF norm = <<>> THEN [err |-> Ok, conn |-> d, n |-> n]
  ELSE IF HasTag(d, element_id, Head(norm))
    THEN IF or_ignore
         THEN insert_tags(d, element_id, Tail(norm), ts, or_ignore, n)
         ELSE [err  |-> IntegrityError("UNIQUE constraint failed: element_tags"),
               conn |-> d, n |-> n]
  ELSE IF ~fk_ok(d, element_id)
    THEN [err |-> IntegrityError("FOREIGN KEY constraint failed"),
          conn |-> d, n |-> n]
  ELSE insert_tags(
         WithTags(d, d.element_tags \cup
           {[element_id |-> element_id, tag |-> Head(norm), created_at |-> ts]}),
         element_id, Tail(norm), ts, or_ignore, n + 1)

\* SELECT tag FROM element_tags WHERE element_id = ?  (as a set)
tags_of(d, element_id) ==
  {r.tag : r \in {x \in d.element_tags : x.element_id = element_id}}

\* The code point of a character (those the callers of the model use).
ord(c) ==
  CASE c = "\t" -> 9
    [] c = "\n" -> 10
    [] c = " " -> 32
    [] c = "B" -> 66
    [] c = "a" -> 97
    [] c = "b" -> 98
    [] c = "c" -> 99
    [] c = "t" -> 116
    [] c = "u" -> 117
    [] c = "x" -> 120

RECURSIVE memcmp_less(_, _)
\* ORDER BY tag ASC under SQLite's default BINARY collation: s sorts before t.
memcmp_less(s, t) ==
  IF t = <<>> THEN FALSE
  ELSE IF s = <<>> THEN TRUE
  ELSE IF Head(s) = Head(t) THEN memcmp_less(Tail(s), Tail(t))
  ELSE ord(Head(s)) < ord(Head(t))

RECURSIVE order_by_asc(_)
\* The rows of a SELECT ... ORDER BY tag ASC, as a list.
order_by_asc(S) ==
  IF S = {} THEN <<>>
  ELSE LET m == CHOOSE x \in S : \A y \in S : x = y \/ memcmp_less(x, y)
       IN  <<m>> \o order_by_asc(S \ {m})

list_tags(d, element_id) == order_by_asc(tags_of(d, element_id))

add_tags(d, ts, element_id, tags) ==
  LET nt == normalize_tags(tags)
  IN  IF nt.err # Ok THEN Raised(nt.err, d)
      ELSE LET r == insert_tags(d, element_id, nt.norm, ts, TRUE, 0)
           IN  IF r.err # Ok THEN Raised(r.err, r.conn)
               ELSE Returned(Some(r.n), r.conn, TRUE)

\* A remove_tags that counts the tags asked for, not the rows deleted.
remove_tags_CountsAsked(d, element_id, tags) ==
  LET nt == normalize_tags(tags)
      gone == {r \in d.element_tags :
                 r.element_id = element_id
                 /\ \E i \in 1..Len(nt.norm) : nt.norm[i] = r.tag}
  IN  IF nt.err # Ok THEN Raised(nt.err, d)
      ELSE Returned(Some(Len(nt.norm)), WithTags(d, d.element_tags \ gone), TRUE)

remove_tags(d, element_id, tags) ==
  LET nt == normalize_tags(tags)
      gone == {r \in d.element_tags :
                 r.element_id = element_id
                 /\ \E i \in 1..Len(nt.norm) : nt.norm[i] = r.tag}
  IN  IF nt.err # Ok THEN Raised(nt.err, d)
      ELSE Returned(Some(Cardinality(gone)), WithTags(d, d.element_tags \ gone), TRUE)

\* A clear_tags whose DELETE has no WHERE clause.
clear_tags_AllElements(d, element_id) ==
  LET gone == {r \in d.element_tags : r.element_id = element_id}
  IN  Returned(Some(Cardinality(gone)), WithTags(d, {}), TRUE)

clear_tags(d, element_id) ==
  LET gone == {r \in d.element_tags : r.element_id = element_id}
  IN  Returned(Some(Cardinality(gone)), WithTags(d, d.element_tags \ gone), TRUE)

set_tags(d, ts, element_id, tags) ==
  LET nt == normalize_tags(tags)
      cleared == WithTags(d, {r \in d.element_tags : r.element_id # element_id})
  IN  IF nt.err # Ok THEN Raised(nt.err, d)
      ELSE LET r == insert_tags(cleared, element_id, nt.norm, ts, FALSE, 0)
           IN  IF r.err # Ok THEN Raised(r.err, r.conn)
               ELSE Returned(None, r.conn, TRUE)

\* --------------------------------------------------------------- elements
WithElements(d, rows) == [d EXCEPT !.elements = rows]

\* A default of "markdown" for an omitted format.
default_format_Markdown == "markdown"

\* create_element(..., format: str = "plain", ...)
default_format == "plain"

\* `ts` is the call's own now_utc_iso(); `ts2` the one read inside set_tags.
\* A create_element whose INSERT replaces the row that has the id.
create_element_OrReplace(d, ts, ts2, type, title, body, format, tags, element_id) ==
  IF validate_type(type) # Ok THEN Raised(validate_type(type), d)
  ELSE IF validate_format(format) # Ok THEN Raised(validate_format(format), d)
  ELSE IF strip(title) = <<>> THEN Raised(ValueError("title is empty"), d)
  ELSE IF strip(body) = <<>> THEN Raised(ValueError("body is empty"), d)
  ELSE
    LET row == [id |-> element_id, type |-> type, format |-> format,
                title |-> title, body |-> body,
                created_at |-> ts, updated_at |-> ts]
        d1 == WithElements(d, {e \in d.elements : e.id # element_id} \cup {row})
    IN  IF IsNone(tags) THEN Returned(Some(element_id), d1, TRUE)
        ELSE LET r == set_tags(d1, ts2, element_id, Val(tags))
             IN  IF r.err # Ok THEN Raised(r.err, r.conn)
                 ELSE Returned(Some(element_id), r.conn, TRUE)

create_element(d, ts, ts2, type, title, body, format, tags, element_id) ==
  IF validate_type(type) # Ok THEN Raised(validate_type(type), d)
  ELSE IF validate_format(format) # Ok THEN Raised(validate_format(format), d)
  ELSE IF strip(title) = <<>> THEN Raised(ValueError("title is empty"), d)
  ELSE IF strip(body) = <<>> THEN Raised(ValueError("body is empty"), d)
  ELSE IF HasElement(d, element_id)
    THEN Raised(IntegrityError("UNIQUE constraint failed: elements.id"), d)
  ELSE
    LET row == [id |-> element_id, type |-> type, format |-> format,
                title |-> title, body |-> body,
                created_at |-> ts, updated_at |-> ts]
        d1 == WithElements(d, d.elements \cup {row})
    IN  IF IsNone(tags) THEN Returned(Some(element_id), d1, TRUE)
        ELSE LET r == set_tags(d1, ts2, element_id, Val(tags))
             IN  IF r.err # Ok THEN Raised(r.err, r.conn)
                 ELSE Returned(Some(element_id), r.conn, TRUE)

\* None when there is no row, else the row with d["tags"] = list_tags(...).
get_element(d, element_id) ==
  IF ~HasElement(d, element_id) THEN None
  ELSE LET row == ElementRow(d, element_id)
       IN  Some([id |-> row.id, type |-> row.type, format |-> row.format,
                 title |-> row.title, body |-> row.body,
                 created_at |-> row.created_at, updated_at |-> row.updated_at,
                 tags |-> list_tags(d, element_id)])

\* An update whose UPDATE also writes created_at.
update_element_SetsCreatedAt(d, ts, ts2, element_id, type, title, body, format, tags) ==
  IF ~HasElement(d, element_id) THEN Returned(Some(Bool(FALSE)), d, FALSE)
  ELSE
    LET existing == ElementRow(d, element_id)
        new_type == IF IsNone(type) THEN existing.type ELSE Val(type)
        new_title == IF IsNone(title) THEN existing.title ELSE Val(title)
        new_body == IF IsNone(body) THEN existing.body ELSE Val(body)
        new_format == IF IsNone(format) THEN existing.format ELSE Val(format)
        row == [existing EXCEPT !.type = new_type, !.format = new_format,
                                !.title = new_title, !.body = new_body,
                                !.created_at = ts, !.updated_at = ts]
        d1 == WithElements(d, (d.elements \ {existing}) \cup {row})
    IN  IF ~IsNone(type) /\ validate_type(Val(type)) # Ok
          THEN Raised(validate_type(Val(type)), d)
        ELSE IF ~IsNone(format) /\ validate_format(Val(format)) # Ok
          THEN Raised(validate_format(Val(format)), d)
        ELSE IF strip(new_title) = <<>> THEN Raised(ValueError("title is empty"), d)
        ELSE IF strip(new_body) = <<>> THEN Raised(ValueError("body is empty"), d)
        ELSE IF IsNone(tags) THEN Returned(Some(Bool(TRUE)), d1, TRUE)
        ELSE LET r == set_tags(d1, ts2, element_id, Val(tags))
             IN  IF r.err # Ok THEN Raised(r.err, r.conn)
                 ELSE Returned(Some(Bool(TRUE)), r.conn, TRUE)

\* An update that returns early, without its UPDATE, when nothing is supplied.
update_element_SkipsEmpty(d, ts, ts2, element_id, type, title, body, format, tags) ==
  IF ~HasElement(d, element_id) THEN Returned(Some(Bool(FALSE)), d, FALSE)
  ELSE
    LET existing == ElementRow(d, element_id)
        new_type == IF IsNone(type) THEN existing.type ELSE Val(type)
        new_title == IF IsNone(title) THEN existing.title ELSE Val(title)
        new_body == IF IsNone(body) THEN existing.body ELSE Val(body)
        new_format == IF IsNone(format) THEN existing.format ELSE Val(format)
        row == [existing EXCEPT !.type = new_type, !.format = new_format,
                                !.title = new_title, !.body = new_body,
                                !.updated_at = ts]
        d1 == WithElements(d, (d.elements \ {existing}) \cup {row})
    IN  IF ~IsNone(type) /\ validate_type(Val(type)) # Ok
          THEN Raised(validate_type(Val(type)), d)
        ELSE IF ~IsNone(format) /\ validate_format(Val(format)) # Ok
          THEN Raised(validate_format(Val(format)), d)
        ELSE IF strip(new_title) = <<>> THEN Raised(ValueError("title is empty"), d)
        ELSE IF strip(new_body) = <<>> THEN Raised(ValueError("body is empty"), d)
        ELSE IF IsNone(type) /\ IsNone(title) /\ IsNone(body) /\ IsNone(format)
                /\ IsNone(tags)
          THEN Returned(Some(Bool(TRUE)), d, FALSE)
        ELSE IF IsNone(tags) THEN Returned(Some(Bool(TRUE)), d1, TRUE)
        ELSE LET r == set_tags(d1, ts2, element_id, Val(tags))
             IN  IF r.err # Ok THEN Raised(r.err, r.conn)
                 ELSE Returned(Some(Bool(TRUE)), r.conn, TRUE)

\* An update that passes `tags or []` on: no tags given clears the tags.
update_element_ClearsTags(d, ts, ts2, element_id, type, title, body, format, tags) ==
  IF ~HasElement(d, element_id) THEN Returned(Some(Bool(FALSE)), d, FALSE)
  ELSE
    LET existing == ElementRow(d, element_id)
        new_type == IF IsNone(type) THEN existing.type ELSE Val(type)
        new_title == IF IsNone(title) THEN existing.title ELSE Val(title)
        new_body == IF IsNone(body) THEN existing.body ELSE Val(body)
        new_format == IF IsNone(format) THEN existing.format ELSE Val(format)
        row == [existing EXCEPT !.type = new_type, !.format = new_format,
                                !.title = new_title, !.body = new_body,
                                !.updated_at = ts]
        d1 == WithElements(d, (d.elements \ {existing}) \cup {row})
    IN  IF ~IsNone(type) /\ validate_type(Val(type)) # Ok
          THEN Raised(validate_type(Val(type)), d)
        ELSE IF ~IsNone(format) /\ validate_format(Val(format)) # Ok
          THEN Raised(validate_format(Val(format)), d)
        ELSE IF strip(new_title) = <<>> THEN Raised(ValueError("title is empty"), d)
        ELSE IF strip(new_body) = <<>> THEN Raised(ValueError("body is empty"), d)
        ELSE LET r == set_tags(d1, ts2, element_id,
                               IF IsNone(tags) THEN <<>> ELSE Val(tags))
             IN  IF r.err # Ok THEN Raised(r.err, r.conn)
                 ELSE Returned(Some(Bool(TRUE)), r.conn, TRUE)

update_element(d, ts, ts2, element_id, type, title, body, format, tags) ==
  IF ~HasElement(d, element_id) THEN Returned(Some(Bool(FALSE)), d, FALSE)
  ELSE
    LET existing == ElementRow(d, element_id)
        new_type == IF IsNone(type) THEN existing.type ELSE Val(type)
        new_title == IF IsNone(title) THEN existing.title ELSE Val(title)
        new_body == IF IsNone(body) THEN existing.body ELSE Val(body)
        new_format == IF IsNone(format) THEN existing.format ELSE Val(format)
        row == [existing EXCEPT !.type = new_type, !.format = new_format,
                                !.title = new_title, !.body = new_body,
                                !.updated_at = ts]
        d1 == WithElements(d, (d.elements \ {existing}) \cup {row})
    IN  IF ~IsNone(type) /\ validate_type(Val(type)) # Ok
          THEN Raised(validate_type(Val(type)), d)
        ELSE IF ~IsNone(format) /\ validate_format(Val(format)) # Ok
          THEN Raised(validate_format(Val(format)), d)
        ELSE IF strip(new_title) = <<>> THEN Raised(ValueError("title is empty"), d)
        ELSE IF strip(new_body) = <<>> THEN Raised(ValueError("body is empty"), d)
        ELSE IF IsNone(tags) THEN Returned(Some(Bool(TRUE)), d1, TRUE)
        ELSE LET r == set_tags(d1, ts2, element_id, Val(tags))
             IN  IF r.err # Ok THEN Raised(r.err, r.conn)
                 ELSE Returned(Some(Bool(TRUE)), r.conn, TRUE)

delete_element(d, element_id) ==
  Returned(Some(Bool(HasElement(d, element_id))), delete_cascade(d, element_id), TRUE)

\* ------------------------------------------------------------------ links
WithLinks(d, rows) == [d EXCEPT !.element_links = rows]

create_link(d, ts, src_id, dst_id, rel, note, link_id) ==
  IF validate_rel(rel) # Ok THEN Raised(validate_rel(rel), d)
  ELSE IF validate_link_semantics(d, src_id, dst_id, rel) # Ok
    THEN Raised(validate_link_semantics(d, src_id, dst_id, rel), d)
  ELSE
    LET row == [id |-> link_id, src_id |-> src_id, dst_id |-> dst_id,
                rel |-> rel, note |-> note,
                created_at |-> ts, updated_at |-> ts]
    IN  IF HasLink(d, link_id)
          THEN Raised(IntegrityError("UNIQUE constraint failed: element_links.id"), d)
        ELSE IF ~uq_links_src_dst_rel(d.element_links, row)
          THEN Raised(IntegrityError(
                 "UNIQUE constraint failed: element_links.src_id, element_links.dst_id, element_links.rel"), d)
        ELSE IF ~(fk_ok(d, src_id) /\ fk_ok(d, dst_id))
          THEN Raised(IntegrityError("FOREIGN KEY constraint failed"), d)
        ELSE Returned(Some(link_id), WithLinks(d, d.element_links \cup {row}), TRUE)

get_link(d, link_id) ==
  IF HasLink(d, link_id) THEN Some(LinkRow(d, link_id)) ELSE None

\* An update_link that skips the re-validation of a changed rel.
update_link_NoRevalidation(d, ts, link_id, rel, note) ==
  IF ~HasLink(d, link_id) THEN Returned(Some(Bool(FALSE)), d, FALSE)
  ELSE
    LET existing == LinkRow(d, link_id)
        new_rel == IF IsNone(rel) THEN existing.rel ELSE Val(rel)
        new_note == IF IsNone(note) THEN existing.note ELSE Val(note)
        row == [existing EXCEPT !.rel = new_rel, !.note = new_note,
                                !.updated_at = ts]
    IN  IF ~IsNone(rel) /\ validate_rel(Val(rel)) # Ok
          THEN Raised(validate_rel(Val(rel)), d)
        ELSE IF ~uq_links_src_dst_rel(d.element_links \ {existing}, row)
          THEN Raised(IntegrityError(
                 "UNIQUE constraint failed: element_links.src_id, element_links.dst_id, element_links.rel"), d)
        ELSE Returned(Some(Bool(TRUE)), WithLinks(d, (d.element_links \ {existing}) \cup {row}), TRUE)

\* An update_link that validates a supplied rel before it looks the link up.
update_link_ValidatesFirst(d, ts, link_id, rel, note) ==
  IF ~IsNone(rel) /\ validate_rel(Val(rel)) # Ok
    THEN Raised(validate_rel(Val(rel)), d)
  ELSE IF ~HasLink(d, link_id) THEN Returned(Some(Bool(FALSE)), d, FALSE)
  ELSE
    LET existing == LinkRow(d, link_id)
        new_rel == IF IsNone(rel) THEN existing.rel ELSE Val(rel)
        new_note == IF IsNone(note) THEN existing.note ELSE Val(note)
        row == [existing EXCEPT !.rel = new_rel, !.note = new_note,
                                !.updated_at = ts]
    IN  IF ~IsNone(rel)
           /\ validate_link_semantics(d, existing.src_id, existing.dst_id, new_rel) # Ok
          THEN Raised(validate_link_semantics(d, existing.src_id, existing.dst_id, new_rel), d)
        ELSE IF ~uq_links_src_dst_rel(d.element_links \ {existing}, row)
          THEN Raised(IntegrityError(
                 "UNIQUE constraint failed: element_links.src_id, element_links.dst_id, element_links.rel"), d)
        ELSE Returned(Some(Bool(TRUE)), WithLinks(d, (d.element_links \ {existing}) \cup {row}), TRUE)

\* An update_link that validates the link's semantics on every call.
update_link_AlwaysValidates(d, ts, link_id, rel, note) ==
  IF ~HasLink(d, link_id) THEN Returned(Some(Bool(FALSE)), d, FALSE)
  ELSE
    LET existing == LinkRow(d, link_id)
        new_rel == IF IsNone(rel) THEN existing.rel ELSE Val(rel)
        new_note == IF IsNone(note) THEN existing.note ELSE Val(note)
        row == [existing EXCEPT !.rel = new_rel, !.note = new_note,
                                !.updated_at = ts]
    IN  IF ~IsNone(rel) /\ validate_rel(Val(rel)) # Ok
          THEN Raised(validate_rel(Val(rel)), d)
        ELSE IF validate_link_semantics(d, existing.src_id, existing.dst_id, new_rel) # Ok
          THEN Raised(validate_link_semantics(d, existing.src_id, existing.dst_id, new_rel), d)
        ELSE IF ~uq_links_src_dst_rel(d.element_links \ {existing}, row)
          THEN Raised(IntegrityError(
                 "UNIQUE constraint failed: element_links.src_id, element_links.dst_id, element_links.rel"), d)
        ELSE Returned(Some(Bool(TRUE)), WithLinks(d, (d.element_links \ {existing}) \cup {row}), TRUE)

\* An update_link that writes the default note when none is supplied.
update_link_DefaultNote(d, ts, link_id, rel, note) ==
  IF ~HasLink(d, link_id) THEN Returned(Some(Bool(FALSE)), d, FALSE)
  ELSE
    LET existing == LinkRow(d, link_id)
        new_rel == IF IsNone(rel) THEN existing.rel ELSE Val(rel)
        new_note == IF IsNone(note) THEN "" ELSE Val(note)
        row == [existing EXCEPT !.rel = new_rel, !.note = new_note,
                                !.updated_at = ts]
    IN  IF ~IsNone(rel) /\ validate_rel(Val(rel)) # Ok
          THEN Raised(validate_rel(Val(rel)), d)
        ELSE IF ~IsNone(rel)
                /\ validate_link_semantics(d, existing.src_id, existing.dst_id, new_rel) # Ok
          THEN Raised(validate_link_semantics(d, existing.src_id, existing.dst_id, new_rel), d)
        ELSE IF ~uq_links_src_dst_rel(d.element_links \ {existing}, row)
          THEN Raised(IntegrityError(
                 "UNIQUE constraint failed: element_links.src_id, element_links.dst_id, element_links.rel"), d)
        ELSE Returned(Some(Bool(TRUE)), WithLinks(d, (d.element_links \ {existing}) \cup {row}), TRUE)

update_link(d, ts, link_id, rel, note) ==
  IF ~HasLink(d, link_id) THEN Returned(Some(Bool(FALSE)), d, FALSE)
  ELSE
    LET existing == LinkRow(d, link_id)
        new_rel == IF IsNone(rel) THEN existing.rel ELSE Val(rel)
        new_note == IF IsNone(note) THEN existing.note ELSE Val(note)
        row == [existing EXCEPT !.rel = new_rel, !.note = new_note,
                                !.updated_at = ts]
    IN  IF ~IsNone(rel) /\ validate_rel(Val(rel)) # Ok
          THEN Raised(validate_rel(Val(rel)), d)
        ELSE IF ~IsNone(rel)
                /\ validate_link_semantics(d, existing.src_id, existing.dst_id, new_rel) # Ok
          THEN Raised(validate_link_semantics(d, existing.src_id, existing.dst_id, new_rel), d)
        ELSE IF ~uq_links_src_dst_rel(d.element_links \ {existing}, row)
          THEN Raised(IntegrityError(
                 "UNIQUE constraint failed: element_links.src_id, element_links.dst_id, element_links.rel"), d)
        ELSE Returned(Some(Bool(TRUE)), WithLinks(d, (d.element_links \ {existing}) \cup {row}), TRUE)

delete_link(d, link_id) ==
  Returned(Some(Bool(HasLink(d, link_id))),
           WithLinks(d, {l \in d.element_links : l.id # link_id}), TRUE)

\* ----------------------------------------------------------------- listing
\* str.upper() of an order_dir argument.
upper(s) ==
  CASE s = "asc" -> "ASC"
    [] s = "desc" -> "DESC"
    [] OTHER -> s

\* The stored values of type, format and rel in the order of SQLite's BINARY
\* collation.
BinaryOrder ==
  <<"axiom", "corollary", "counterexample", "counterexample_to", "definition",
    "equivalent_to", "example", "example_of", "html", "implies", "latex",
    "lemma", "markdown", "plain", "postulate", "proof", "proposition",
    "proves", "related", "remark", "theorem", "uses">>

collate(s) == CHOOSE i \in 1..Len(BinaryOrder) : BinaryOrder[i] = s

\* ORDER BY col ASC puts row a strictly before row b.
sorts_before(a, b, col) ==
  CASE col \in {"updated_at", "created_at"} -> a[col] < b[col]
    [] col = "title" -> memcmp_less(a.title, b.title)
    [] col \in {"type", "format", "rel"} -> collate(a[col]) < collate(b[col])

\* The lists a SELECT ... ORDER BY col dir may return for the joined rows P,
\* `row(p)` the columns selected from p: every row once, in the order of the
\* key; SQL leaves the order of rows with equal keys open.
order_by(P, col, dir) ==
  LET n == Cardinality(P)
  IN  {f \in [1..n -> P] :
         /\ \A i, j \in 1..n : i # j => f[i] # f[j]
         /\ \A i, j \in 1..n :
              i < j => IF dir = "ASC" THEN ~sorts_before(f[j][1], f[i][1], col)
                       ELSE ~sorts_before(f[i][1], f[j][1], col)}

\* LIMIT limit OFFSET offset of a list of rows.  No LIMIT clause and a
\* negative LIMIT keep every row; SQLite reads a negative OFFSET as 0.
limit_offset(rows, limit, offset) ==
  LET first == IF IsNone(offset) \/ Val(offset) < 0 THEN 1 ELSE Val(offset) + 1
      end == IF IsNone(limit) \/ Val(limit) < 0 THEN Len(rows)
             ELSE IF first + Val(limit) - 1 < Len(rows) THEN first + Val(limit) - 1
             ELSE Len(rows)
  IN  SubSeq(rows, first, end)

\* The lower case of a character (those the callers of the model use), as
\* LIKE folds it.
lower(c) == IF c = "B" THEN "b" ELSE c

\* text LIKE '%q%', q without the wildcards % and _.
like(text, q) ==
  \E i \in 1..(Len(text) - Len(q) + 1) :
    \A k \in 1..Len(q) : lower(text[i + k - 1]) = lower(q[k])

\* A list_elements whose tag filter joins element_tags without the test of
\* the tag.
select_elements_AnyTag(d, type, q, tag, format, limit, offset, col, dir) ==
  LET joined == IF IsNone(tag) THEN {<<e, None>> : e \in d.elements}
                ELSE {p \in d.elements \X {Some(t) : t \in d.element_tags} :
                        Val(p[2]).element_id = p[1].id}
      P == {p \in joined :
              /\ (~IsNone(type) /\ Val(type) # "") => p[1].type = Val(type)
              /\ (~IsNone(format) /\ Val(format) # "") => p[1].format = Val(format)
              /\ (~IsNone(q) /\ Val(q) # <<>>) =>
                   like(p[1].title, Val(q)) \/ like(p[1].body, Val(q))}
  IN  {limit_offset([i \in 1..Len(f) |-> f[i][1]], limit, offset) :
         f \in order_by(P, col, dir)}

\* The lists the SELECT of list_elements may fetch: the elements, joined to
\* their row of the tag when a tag is given, that pass the filters.
select_elements(d, type, q, tag, format, limit, offset, col, dir) ==
  LET joined == IF IsNone(tag) THEN {<<e, None>> : e \in d.elements}
                ELSE {p \in d.elements \X {Some(t) : t \in d.element_tags} :
                        /\ Val(p[2]).element_id = p[1].id
                        /\ Val(p[2]).tag = normalize_tag(Val(tag)).t}
      P == {p \in joined :
              /\ (~IsNone(type) /\ Val(type) # "") => p[1].type = Val(type)
              /\ (~IsNone(format) /\ Val(format) # "") => p[1].format = Val(format)
              /\ (~IsNone(q) /\ Val(q) # <<>>) =>
                   like(p[1].title, Val(q)) \/ like(p[1].body, Val(q))}
  IN  {limit_offset([i \in 1..Len(f) |-> f[i][1]], limit, offset) :
         f \in order_by(P, col, dir)}

\* An element row as list_elements returns it: d["tags"] is set only with
\* include_tags.
ListedElement(d, row, include_tags) ==
  [id |-> row.id, type |-> row.type, format |-> row.format,
   title |-> row.title, body |-> row.body,
   created_at |-> row.created_at, updated_at |-> row.updated_at,
   tags |-> IF include_tags THEN Some(list_tags(d, row.id)) ELSE None]

\* The tests list_elements makes before it executes its SELECT: the first
\* exception, or Ok.
list_elements_checks(type, tag, format, limit, offset, order_by_col, order_dir) ==
  IF ~IsNone(type) /\ validate_type(Val(type)) # Ok THEN validate_type(Val(type))
  ELSE IF ~IsNone(format) /\ validate_format(Val(format)) # Ok
    THEN validate_format(Val(format))
  ELSE IF order_by_col \notin {"updated_at", "created_at", "title", "type", "format"}
    THEN ValueError("order_by must be one of ['created_at', 'format', 'title', 'type', 'updated_at']")
  ELSE IF upper(order_dir) \notin {"ASC", "DESC"}
    THEN ValueError("order_dir must be ASC or DESC")
  ELSE IF ~IsNone(tag) /\ normalize_tag(Val(tag)).err # Ok
    THEN normalize_tag(Val(tag)).err
  ELSE IF ~IsNone(limit) /\ Val(limit) < 1 THEN ValueError("limit must be >= 1")
  ELSE IF ~IsNone(offset) /\ Val(offset) < 0 THEN ValueError("offset must be >= 0")
  ELSE Ok

\* `rows` is the list the SELECT fetched.
list_elements(d, type, q, tag, format, limit, offset, order_by_col, order_dir, include_tags, rows) ==
  IF list_elements_checks(type, tag, format, limit, offset, order_by_col, order_dir) # Ok
    THEN Raised(list_elements_checks(type, tag, format, limit, offset,
                                     order_by_col, order_dir), d)
  ELSE Returned(Some([i \in 1..Len(rows) |-> ListedElement(d, rows[i], include_tags)]),
                d, FALSE)

\* The lists the SELECT of list_links may fetch.
select_links(d, src_id, dst_id, rel, limit, offset, col, dir) ==
  LET P == {<<l>> : l \in
             {l \in d.element_links :
                /\ ~IsNone(src_id) => l.src_id = Val(src_id)
                /\ ~IsNone(dst_id) => l.dst_id = Val(dst_id)
                /\ (~IsNone(rel) /\ Val(rel) # "") => l.rel = Val(rel)}}
  IN  {limit_offset([i \in 1..Len(f) |-> f[i][1]], limit, offset) :
         f \in order_by(P, col, dir)}

\* A list_links that tests the offset only when a limit is given.
list_links_checks_OffsetWithLimit(rel, limit, offset, order_by_col, order_dir) ==
  IF order_by_col \notin {"updated_at", "created_at", "rel"}
    THEN ValueError("order_by must be one of ['created_at', 'rel', 'updated_at']")
  ELSE IF upper(order_dir) \notin {"ASC", "DESC"}
    THEN ValueError("order_dir must be ASC or DESC")
  ELSE IF ~IsNone(rel) /\ Val(rel) # "" /\ validate_rel(Val(rel)) # Ok
    THEN validate_rel(Val(rel))
  ELSE IF ~IsNone(limit) /\ Val(limit) < 1 THEN ValueError("limit must be >= 1")
  ELSE IF ~IsNone(limit) /\ ~IsNone(offset) /\ Val(offset) < 0
    THEN ValueError("offset must be >= 0")
  ELSE Ok

\* The tests list_links makes before it executes its SELECT.
list_links_checks(rel, limit, offset, order_by_col, order_dir) ==
  IF order_by_col \notin {"updated_at", "created_at", "rel"}
    THEN ValueError("order_by must be one of ['created_at', 'rel', 'updated_at']")
  ELSE IF upper(order_dir) \notin {"ASC", "DESC"}
    THEN ValueError("order_dir must be ASC or DESC")
  ELSE IF ~IsNone(rel) /\ Val(rel) # "" /\ validate_rel(Val(rel)) # Ok
    THEN validate_rel(Val(rel))
  ELSE IF ~IsNone(limit) /\ Val(limit) < 1 THEN ValueError("limit must be >= 1")
  ELSE IF ~IsNone(offset) /\ Val(offset) < 0 THEN ValueError("offset must be >= 0")
  ELSE Ok

list_links(d, src_id, dst_id, rel, limit, offset, order_by_col, order_dir, rows) ==
  IF list_links_checks(rel, limit, offset, order_by_col, order_dir) # Ok
    THEN Raised(list_links_checks(rel, limit, offset, order_by_col, order_dir), d)
  ELSE Returned(Some(rows), d, FALSE)

\* (direction or "both").lower() of a direction argument.
lower_direction(s) ==
  CASE s = "" -> "both"
    [] s = "OUT" -> "out"
    [] s = "IN" -> "in"
    [] s = "Both" -> "both"
    [] OTHER -> s

\* A SELECT of list_links_for_element whose "both" selects the links that
\* leave the element only.
select_links_for_element_BothIsOut(d, element_id, direction, rel, limit) ==
  LET P == {<<l>> : l \in
             {l \in d.element_links :
                /\ lower_direction(direction) \in {"out", "both"} => l.src_id = element_id
                /\ lower_direction(direction) = "in" => l.dst_id = element_id
                /\ (~IsNone(rel) /\ Val(rel) # "") => l.rel = Val(rel)}}
  IN  {limit_offset([i \in 1..Len(f) |-> f[i][1]], limit, None) :
         f \in order_by(P, "updated_at", "DESC")}

\* The lists the SELECT of list_links_for_element may fetch.
select_links_for_element(d, element_id, direction, rel, limit) ==
  LET P == {<<l>> : l \in
             {l \in d.element_links :
                /\ lower_direction(direction) = "out" => l.src_id = element_id
                /\ lower_direction(direction) = "in" => l.dst_id = element_id
                /\ lower_direction(direction) = "both" =>
                     l.src_id = element_id \/ l.dst_id = element_id
                /\ (~IsNone(rel) /\ Val(rel) # "") => l.rel = Val(rel)}}
  IN  {limit_offset([i \in 1..Len(f) |-> f[i][1]], limit, None) :
         f \in order_by(P, "updated_at", "DESC")}

\* The tests list_links_for_element makes before it executes its SELECT.
list_links_for_element_checks(direction, rel, limit) ==
  IF lower_direction(direction) \notin {"out", "in", "both"}
    THEN ValueError("direction must be one of: out, in, both")
  ELSE IF ~IsNone(rel) /\ validate_rel(Val(rel)) # Ok THEN validate_rel(Val(rel))
  ELSE IF ~IsNone(limit) /\ Val(limit) < 1 THEN ValueError("limit must be >= 1")
  ELSE Ok

list_links_for_element(d, element_id, direction, rel, limit, rows) ==
  IF list_links_for_element_checks(direction, rel, limit) # Ok
    THEN Raised(list_links_for_element_checks(direction, rel, limit), d)
  ELSE Returned(Some(rows), d, FALSE)

\* ------------------------------------------------------------------ init_db
\* An init_db that creates its tables anew.
init_db_Recreates(d) ==
  Returned(None, [elements |-> {}, element_tags |-> {}, element_links |-> {}], TRUE)

\* CREATE TABLE IF NOT EXISTS for each of the three tables (a table that
\* exists keeps its rows, one that does not is created empty), and a commit.
init_db(d) ==
  LET create_table_if_not_exists(name) ==
        IF name \in DOMAIN d THEN d[name] ELSE {}
  IN  Returned(None,
               [elements |-> create_table_if_not_exists("elements"),
                element_tags |-> create_table_if_not_exists("element_tags"),
                element_links |-> create_table_if_not_exists("element_links")],
               TRUE)

\* ---------------------------------------------------------- state machine
VARIABLES
  conn,   \* the tables as the connection sees them (its open transaction included)
  disk,   \* the committed tables of the database file
  now,    \* the clock behind now_utc_iso(), in seconds
  last,   \* the last repository call: [op, args, err, ret], made at time `at`
  prev,   \* the connection's tables when that call began
  callers \* the other callers, each on a connection of its own: where each
          \* is in its set_tags call, and its open transaction

vars == <<conn, disk, now, last, prev, callers>>

\* No other caller.
NoCallers == <<>>

Init ==
  /\ conn = EmptyDb
  /\ disk = EmptyDb
  /\ now = 0
  /\ last = [op |-> "init_db", args |-> <<>>, err |-> Ok, ret |-> None, at |-> 0]
  /\ prev = EmptyDb
  /\ callers = NoCallers

\* A call `op(args)` that ended as `r`.
Do(op, args, r) ==
  /\ conn' = r.conn
  /\ disk' = IF r.commit THEN r.conn ELSE disk
  /\ last' = [op |-> op, args |-> args, err |-> r.err, ret |-> r.ret, at |-> now]
  /\ prev' = conn
  /\ UNCHANGED callers

\* The readings the clock can give a later now_utc_iso() of the same call,
\* `Ahead` the seconds that may have passed since the first one.
Later(Ahead) == {t \in {now + k : k \in Ahead} : t <= MaxTime}

Opt(S) == {None} \cup {Some(x) : x \in S}

\* `FormatS` holds Optionals: None is a call that omits `format`.
CreateElement(IdS, TypeS, TitleS, BodyS, FormatS, TagsS, Ahead) ==
  \E element_id \in IdS, type \in TypeS, title \in TitleS, body \in BodyS,
     format \in FormatS, tags \in Opt(TagsS), ts2 \in Later(Ahead) :
    /\ IsNone(tags) => ts2 = now
    /\ Do("create_element",
          [id |-> element_id, type |-> type, title |-> title, body |-> body,
           format |-> format, tags |-> tags],
          create_element(conn, now, ts2, type, title, body,
                         IF IsNone(format) THEN default_format ELSE Val(format),
                         tags, element_id))
    /\ now' = ts2

UpdateElement(IdS, TypeS, TitleS, BodyS, FormatS, TagsS, Ahead) ==
  \E element_id \in IdS, type \in Opt(TypeS), title \in Opt(TitleS),
     body \in Opt(BodyS), format \in Opt(FormatS), tags \in Opt(TagsS),
     ts2 \in Later(Ahead) :
    /\ IsNone(tags) => ts2 = now
    /\ Do("update_element",
          [id |-> element_id, type |-> type, title |-> title, body |-> body,
           format |-> format, tags |-> tags],
          update_element(conn, now, ts2, element_id, type, title, body, format, tags))
    /\ now' = ts2

DeleteElement(IdS) ==
  \E element_id \in IdS :
    /\ Do("delete_element", [id |-> element_id], delete_element(conn, element_id))
    /\ UNCHANGED now

AddTags(IdS, TagsS) ==
  \E element_id \in IdS, tags \in TagsS :
    /\ Do("add_tags", [id |-> element_id, tags |-> tags],
          add_tags(conn, now, element_id, tags))
    /\ UNCHANGED now

RemoveTags(IdS, TagsS) ==
  \E element_id \in IdS, tags \in TagsS :
    /\ Do("remove_tags", [id |-> element_id, tags |-> tags],
          remove_tags(conn, element_id, tags))
    /\ UNCHANGED now

ClearTags(IdS) ==
  \E element_id \in IdS :
    /\ Do("clear_tags", [id |-> element_id], clear_tags(conn, element_id))
    /\ UNCHANGED now

SetTags(IdS, TagsS) ==
  \E element_id \in IdS, tags \in TagsS :
    /\ Do("set_tags", [id |-> element_id, tags |-> tags],
          set_tags(conn, now, element_id, tags))
    /\ UNCHANGED now

CreateLink(IdS, RelS, NoteS) ==
  \E link_id \in IdS, src_id \in ElemIds, dst_id \in ElemIds,
     rel \in RelS, note \in NoteS :
    /\ Do("create_link",
          [id |-> link_id, src_id |-> src_id, dst_id |-> dst_id,
           rel |-> rel, note |-> note],
          create_link(conn, now, src_id, dst_id, rel, note, link_id))
    /\ UNCHANGED now

UpdateLink(IdS, RelS, NoteS) ==
  \E link_id \in IdS, rel \in Opt(RelS), note \in Opt(NoteS) :
    /\ Do("update_link", [id |-> link_id, rel |-> rel, note |-> note],
          update_link(conn, now, link_id, rel, note))
    /\ UNCHANGED now

DeleteLink(IdS) ==
  \E link_id \in IdS :
    /\ Do("delete_link", [id |-> link_id], delete_link(conn, link_id))
    /\ UNCHANGED now

\* A second passes.
Tick ==
  /\ now < MaxTime
  /\ now' = now + 1
  /\ UNCHANGED <<conn, disk, last, prev, callers>>

\* conn.close() and a new connect(): the open transaction is rolled back.
Reconnect ==
  /\ conn' = disk
  /\ last' = [op |-> "connect", args |-> <<>>, err |-> Ok, ret |-> None, at |-> now]
  /\ prev' = conn
  /\ UNCHANGED <<disk, now, callers>>

\* -------------------------------------- set_tags, statement by statement
\* A caller on a connection of its own runs set_tags one statement at a
\* time.  pc: "idle", "delete" (tags normalised, the DELETE is next),
\* "insert" (in the INSERT loop, `norm` the tags still to insert; the commit
\* follows the last one), "done" (returned, or raised `err`).  `intx`: its
\* connection has an open transaction, whose tables are `view`.  `found`:
\* the committed tags of the element when its DELETE ran.  `overlap`: the
\* call began while another caller's call was under way.
IdleCaller ==
  [pc |-> "idle", id |-> 0, tags |-> <<>>, norm |-> <<>>, ts |-> 0,
   err |-> Ok, intx |-> FALSE, view |-> EmptyDb, found |-> {},
   overlap |-> FALSE]

OperationalError(m) == [exc |-> "sqlite3.OperationalError", msg |-> m]

\* SQLite allows one write transaction at a time: another connection holds it.
write_locked(c) == \E o \in DOMAIN callers \ {c} : callers[o].intx

\* What the main connection sees once `d` is committed: the new content,
\* unless it has an open transaction of its own.
Seen(d) == IF conn = disk THEN d ELSE conn

\* set_tags: norm = _normalize_tags(tags); ts = now_utc_iso()
SetTagsBegin(c, IdS, TagsS) ==
  \E element_id \in IdS, tags \in TagsS :
    /\ callers[c].pc = "idle"
    /\ LET nt == normalize_tags(tags)
       IN  callers' = [callers EXCEPT ![c] =
             [@ EXCEPT !.pc = IF nt.err # Ok THEN "done" ELSE "delete",
                       !.id = element_id, !.tags = tags, !.norm = nt.norm,
                       !.ts = now, !.err = nt.err,
                       !.overlap = \E o \in DOMAIN callers \ {c} :
                                     callers[o].pc \in {"delete", "insert"}]]
    /\ UNCHANGED <<conn, disk, now, last, prev>>

\* set_tags: DELETE FROM element_tags WHERE element_id = ?  It opens the
\* caller's transaction, for which no other connection may hold one.
SetTagsDelete(c) ==
  /\ callers[c].pc = "delete"
  /\ autocommit \/ ~write_locked(c)
  /\ LET me == callers[c]
         base == IF me.intx THEN me.view ELSE disk
         cleared == WithTags(base, {r \in base.element_tags : r.element_id # me.id})
     IN  IF autocommit
         THEN /\ disk' = cleared
              /\ conn' = Seen(cleared)
              /\ callers' = [callers EXCEPT ![c] =
                   [@ EXCEPT !.pc = "insert", !.found = tags_of(disk, me.id)]]
         ELSE /\ callers' = [callers EXCEPT ![c] =
                   [@ EXCEPT !.pc = "insert", !.intx = TRUE, !.view = cleared,
                             !.found = tags_of(disk, me.id)]]
              /\ UNCHANGED <<conn, disk>>
  /\ UNCHANGED <<now, last, prev>>

\* The DELETE finds the database locked until its timeout: it raises.
SetTagsBusy(c) ==
  /\ callers[c].pc = "delete"
  /\ ~autocommit /\ write_locked(c)
  /\ callers' = [callers EXCEPT ![c] =
       [@ EXCEPT !.pc = "done", !.err = OperationalError("database is locked")]]
  /\ UNCHANGED <<conn, disk, now, last, prev>>

\* set_tags: one INSERT INTO element_tags of the loop.
SetTagsInsert(c) ==
  /\ callers[c].pc = "insert"
  /\ callers[c].norm # <<>>
  /\ LET me == callers[c]
         base == IF autocommit THEN disk ELSE me.view
         r == insert_tags(base, me.id, <<Head(me.norm)>>, me.ts, FALSE, 0)
     IN  IF r.err # Ok
         THEN /\ callers' = [callers EXCEPT ![c] = [@ EXCEPT !.pc = "done", !.err = r.err]]
              /\ UNCHANGED <<conn, disk>>
         ELSE IF autocommit
         THEN /\ disk' = r.conn
              /\ conn' = Seen(r.conn)
              /\ callers' = [callers EXCEPT ![c] = [@ EXCEPT !.norm = Tail(me.norm)]]
         ELSE /\ callers' = [callers EXCEPT ![c] =
                   [@ EXCEPT !.norm = Tail(me.norm), !.view = r.conn]]
              /\ UNCHANGED <<conn, disk>>
  /\ UNCHANGED <<now, last, prev>>

\* set_tags: conn.commit(), after the last INSERT.
SetTagsCommit(c) ==
  /\ callers[c].pc = "insert"
  /\ callers[c].norm = <<>>
  /\ LET me == callers[c]
     IN  IF me.intx
         THEN /\ disk' = me.view
              /\ conn' = Seen(me.view)
         ELSE UNCHANGED <<conn, disk>>
  /\ callers' = [callers EXCEPT ![c] =
       [@ EXCEPT !.pc = "done", !.intx = FALSE, !.view = EmptyDb]]
  /\ UNCHANGED <<now, last, prev>>

\* The caller is back from its call and may make another.
SetTagsReturn(c) ==
  /\ callers[c].pc = "done"
  /\ callers' = [callers EXCEPT ![c] =
       [IdleCaller EXCEPT !.intx = callers[c].intx, !.view = callers[c].view]]
  /\ UNCHANGED <<conn, disk, now, last, prev>>

\* list_tags on the main connection.
ListTags(IdS) ==
  \E element_id \in IdS :
    /\ Do("list_tags", [id |-> element_id],
          Returned(Some(list_tags(conn, element_id)), conn, FALSE))
    /\ UNCHANGED now

\* A call of list_elements; `rows` is what its SELECT fetched, when the call
\* got that far.
ListElements(TypeS, QS, TagS, FormatS, LimitS, OffsetS, OrderByS, OrderDirS, IncludeS) ==
  \E type \in Opt(TypeS), q \in Opt(QS), tag \in Opt(TagS), format \in Opt(FormatS),
     limit \in Opt(LimitS), offset \in Opt(OffsetS), order_by_col \in OrderByS,
     order_dir \in OrderDirS, include_tags \in IncludeS :
    \E rows \in IF list_elements_checks(type, tag, format, limit, offset,
                                        order_by_col, order_dir) # Ok
                THEN {<<>>}
                ELSE select_elements(conn, type, q, tag, format, limit, offset,
                                     order_by_col, upper(order_dir)) :
      /\ Do("list_elements",
            [type |-> type, q |-> q, tag |-> tag, format |-> format,
             limit |-> limit, offset |-> offset, order_by |-> order_by_col,
             order_dir |-> order_dir, include_tags |-> include_tags],
            list_elements(conn, type, q, tag, format, limit, offset,
                          order_by_col, order_dir, include_tags, rows))
      /\ UNCHANGED now

\* A call of list_links.
ListLinks(SrcS, DstS, RelS, LimitS, OffsetS, OrderByS, OrderDirS) ==
  \E src_id \in Opt(SrcS), dst_id \in Opt(DstS), rel \in Opt(RelS),
     limit \in Opt(LimitS), offset \in Opt(OffsetS), order_by_col \in OrderByS,
     order_dir \in OrderDirS :
    \E rows \in IF list_links_checks(rel, limit, offset, order_by_col, order_dir) # Ok
                THEN {<<>>}
                ELSE select_links(conn, src_id, dst_id, rel, limit, offset,
                                  order_by_col, upper(order_dir)) :
      /\ Do("list_links",
            [src_id |-> src_id, dst_id |-> dst_id, rel |-> rel,
             limit |-> limit, offset |-> offset, order_by |-> order_by_col,
             order_dir |-> order_dir],
            list_links(conn, src_id, dst_id, rel, limit, offset,
                       order_by_col, order_dir, rows))
      /\ UNCHANGED now

\* A call of list_links_for_element.
ListLinksForElement(IdS, DirectionS, RelS, LimitS) ==
  \E element_id \in IdS, direction \in DirectionS, rel \in Opt(RelS),
     limit \in Opt(LimitS) :
    \E rows \in IF list_links_for_element_checks(direction, rel, limit) # Ok
                THEN {<<>>}
                ELSE select_links_for_element(conn, element_id, direction, rel, limit) :
      /\ Do("list_links_for_element",
            [id |-> element_id, direction |-> direction, rel |-> rel,
             limit |-> limit],
            list_links_for_element(conn, element_id, direction, rel, limit, rows))
      /\ UNCHANGED now

\* ---------------------------------------------------------------- adapters
\* A request of the HTTP adapter and a command of the CLI each open a
\* connection of their own (connect, init_db), make their repository calls
\* and close it: what the calls left uncommitted is rolled back.  A route is
\* modelled by the status of its response, a command by its exit code, and
\* `conn` of the result is the committed tables when the connection is closed.
\* The tables of the file after conn.close().
closed(d, r) == IF r.commit THEN r.conn ELSE d

Response(status, err, d) ==
  [err |-> err, ret |-> Some(status), conn |-> d, commit |-> TRUE]

\* return code: 0 from `return 0`; 1 from SystemExit(message) and from an
\* exception that no handler catches.
Exit(code, err, d) ==
  [err |-> err, ret |-> Some(code), conn |-> d, commit |-> TRUE]

SystemExit(m) == [exc |-> "SystemExit", msg |-> m]

elements_get(d, element_id) ==
  IF IsNone(get_element(d, element_id)) THEN Response(404, Ok, d)
  ELSE Response(200, Ok, d)

elements_delete(d, element_id) ==
  LET r == delete_element(d, element_id)
  IN  IF r.ret = Some(Bool(FALSE)) THEN Response(404, Ok, closed(d, r))
      ELSE Response(200, Ok, closed(d, r))

tags_get(d, element_id) ==
  IF IsNone(get_element(d, element_id)) THEN Response(404, Ok, d)
  ELSE Response(200, Ok, d)

\* `tags` is None when the JSON body has no "tags".
tags_set_route(d, ts, element_id, tags) ==
  IF IsNone(tags) THEN Response(400, Ok, d)
  ELSE LET r == set_tags(d, ts, element_id, Val(tags))
       IN  IF r.err # Ok THEN Response(400, r.err, closed(d, r))
           ELSE Response(200, Ok, closed(d, r))

tags_add_route(d, ts, element_id, tags) ==
  IF IsNone(tags) THEN Response(400, Ok, d)
  ELSE LET r == add_tags(d, ts, element_id, Val(tags))
       IN  IF r.err # Ok THEN Response(400, r.err, closed(d, r))
           ELSE Response(200, Ok, closed(d, r))

tags_delete_route(d, element_id, tags) ==
  LET r == IF ~IsNone(tags) THEN remove_tags(d, element_id, Val(tags))
           ELSE clear_tags(d, element_id)
  IN  IF r.err # Ok THEN Response(400, r.err, closed(d, r))
      ELSE Response(200, Ok, closed(d, r))

links_get_route(d, link_id) ==
  IF IsNone(get_link(d, link_id)) THEN Response(404, Ok, d)
  ELSE Response(200, Ok, d)

links_for_element_route(d, element_id, direction, rel, limit, rows) ==
  LET r == list_links_for_element(d, element_id, direction, rel, limit, rows)
  IN  IF r.err # Ok THEN Response(400, r.err, d)
      ELSE Response(200, Ok, d)

cmd_get(d, element_id) ==
  IF IsNone(get_element(d, element_id))
    THEN Exit(1, SystemExit("No entry found for id"), d)
  ELSE Exit(0, Ok, d)

\* `delete --yes`
cmd_delete(d, element_id) ==
  LET r == delete_element(d, element_id)
  IN  IF r.ret = Some(Bool(FALSE))
        THEN Exit(1, SystemExit("No entry found for id"), closed(d, r))
      ELSE Exit(0, Ok, closed(d, r))

cmd_tags_list(d, element_id) == Exit(0, Ok, d)

cmd_tags_add(d, ts, element_id, tags) ==
  LET r == add_tags(d, ts, element_id, tags)
  IN  IF r.err # Ok THEN Exit(1, r.err, closed(d, r))
      ELSE Exit(0, Ok, closed(d, r))

cmd_tags_remove(d, element_id, tags) ==
  LET r == remove_tags(d, element_id, tags)
  IN  IF r.err # Ok THEN Exit(1, r.err, closed(d, r))
      ELSE Exit(0, Ok, closed(d, r))

cmd_tags_set(d, ts, element_id, tags) ==
  LET r == set_tags(d, ts, element_id, tags)
  IN  IF r.err # Ok THEN Exit(1, r.err, closed(d, r))
      ELSE Exit(0, Ok, closed(d, r))

cmd_tags_clear(d, element_id) ==
  LET r == clear_tags(d, element_id)
  IN  Exit(0, Ok, closed(d, r))

cmd_links_get(d, link_id) ==
  IF IsNone(get_link(d, link_id))
    THEN Exit(1, SystemExit("No link found for id"), d)
  ELSE Exit(0, Ok, d)

cmd_links_for(d, element_id, direction, rel, limit, rows) ==
  LET r == list_links_for_element(d, element_id, direction, rel, limit, rows)
  IN  IF r.err # Ok THEN Exit(1, r.err, d)
      ELSE Exit(0, Ok, d)

\* A request or command `op(args)` on a connection of its own that ended as
\* `r`; the main connection has no transaction open.
Serve(op, args, r) ==
  /\ conn = disk
  /\ conn' = r.conn
  /\ disk' = r.conn
  /\ last' = [op |-> op, args |-> args, err |-> r.err, ret |-> r.ret, at |-> now]
  /\ prev' = disk
  /\ UNCHANGED <<now, callers>>

\* The routes under /api/elements/<element_id> and /api/links/<link_id>.
HttpRequest(IdS, LinkIdS, TagsS) ==
  \/ \E element_id \in IdS :
       \/ Serve("elements_get", [id |-> element_id], elements_get(disk, element_id))
       \/ Serve("elements_delete", [id |-> element_id],
                elements_delete(disk, element_id))
       \/ Serve("tags_get", [id |-> element_id], tags_get(disk, element_id))
       \/ \E tags \in Opt(TagsS) :
            \/ Serve("tags_set_route", [id |-> element_id, tags |-> tags],
                     tags_set_route(disk, now, element_id, tags))
            \/ Serve("tags_add_route", [id |-> element_id, tags |-> tags],
                     tags_add_route(disk, now, element_id, tags))
            \/ Serve("tags_delete_route", [id |-> element_id, tags |-> tags],
                     tags_delete_route(disk, element_id, tags))
       \/ \E rows \in select_links_for_element(disk, element_id, "both", None, None) :
            Serve("links_for_element_route", [id |-> element_id],
                  links_for_element_route(disk, element_id, "both", None, None, rows))
  \/ \E link_id \in LinkIdS :
       Serve("links_get_route", [id |-> link_id], links_get_route(disk, link_id))

\* The commands that take an element id or a link id.
CliCommand(IdS, LinkIdS, TagsS) ==
  \/ \E element_id \in IdS :
       \/ Serve("cmd_get", [id |-> element_id], cmd_get(disk, element_id))
       \/ Serve("cmd_delete", [id |-> element_id], cmd_delete(disk, element_id))
       \/ Serve("cmd_tags_list", [id |-> element_id], cmd_tags_list(disk, element_id))
       \/ Serve("cmd_tags_clear", [id |-> element_id],
                cmd_tags_clear(disk, element_id))
       \/ \E tags \in TagsS :
            \/ Serve("cmd_tags_add", [id |-> element_id, tags |-> tags],
                     cmd_tags_add(disk, now, element_id, tags))
            \/ Serve("cmd_tags_remove", [id |-> element_id, tags |-> tags],
                     cmd_tags_remove(disk, element_id, tags))
            \/ Serve("cmd_tags_set", [id |-> element_id, tags |-> tags],
                     cmd_tags_set(disk, now, element_id, tags))
       \/ \E rows \in select_links_for_element(disk, element_id, "both", None, None) :
            Serve("cmd_links_for", [id |-> element_id],
                  cmd_links_for(disk, element_id, "both", None, None, rows))
  \/ \E link_id \in LinkIdS :
       Serve("cmd_links_get", [id |-> link_id], cmd_links_get(disk, link_id))

\* A call of init_db on the main connection.
InitDb ==
  /\ Do("init_db", <<>>, init_db(conn))
  /\ UNCHANGED now

\* ------------------------------------------------- Spec: the whole repository
\* Every repository call, on a store that starts empty, with all calls made
\* within one second of the clock.  The values the callers pass:
TypeIn == {"proof", "theorem"}
TitleIn == {<<"t">>}
BodyIn == {<<"b">>}
FormatIn == {Some("plain")}
TagsIn == {<<<<"a">>>>, <<<<" ">>>>}
RelIn == {"proves", "related"}
NoteIn == {""}

Next ==
  \/ CreateElement(ElemIds, TypeIn, TitleIn, BodyIn, FormatIn, TagsIn, {0})
  \/ UpdateElement(ElemIds, TypeIn, {}, {}, {}, TagsIn, {0})
  \/ DeleteElement(ElemIds)
  \/ AddTags(ElemIds, TagsIn)
  \/ RemoveTags(ElemIds, {<<<<"a">>>>})
  \/ ClearTags(ElemIds)
  \/ SetTags(ElemIds, TagsIn)
  \/ CreateLink(LinkIds, RelIn, NoteIn)
  \/ UpdateLink(LinkIds, RelIn, {})
  \/ DeleteLink(LinkIds)
  \/ Reconnect

Spec == Init /\ [][Next]_vars

\* --------------------------------------- SpecRel: every type, every relation
\* The state two successful create_element calls leave: element 1 of type t1
\* and element 2 of type t2, committed.
NewElement(element_id, type) ==
  [id |-> element_id, type |-> type, format |-> "plain", title |-> <<"t">>,
   body |-> <<"b">>, created_at |-> 0, updated_at |-> 0]

InitPair(Types1, Types2) ==
  \E t1 \in Types1, t2 \in Types2 :
    /\ prev = WithElements(EmptyDb, {NewElement(1, t1)})
    /\ conn = WithElements(EmptyDb, {NewElement(1, t1), NewElement(2, t2)})
    /\ disk = conn
    /\ now = 0
    /\ last = [op |-> "create_element",
               args |-> [id |-> 2, type |-> t2, title |-> <<"t">>,
                         body |-> <<"b">>, format |-> Some("plain"), tags |-> None],
               err |-> Ok, ret |-> Some(2), at |-> 0]
    /\ callers = NoCallers

InitRel == InitPair(ELEMENT_TYPES, ELEMENT_TYPES)

\* The link calls on one link id, with every relation and one value that is
\* none.
NextRel ==
  \/ CreateLink({1}, LINK_RELATIONS \cup {"cites"}, {""})
  \/ UpdateLink({1}, LINK_RELATIONS, {})
  \/ DeleteLink({1})

SpecRel == InitRel /\ [][NextRel]_vars

\* ------------------------------------- SpecLinks: link calls as time passes
\* A proof (element 1) and a theorem (element 2), the link calls and the clock.
RelClk == {"proves", "implies", "related"}

InitLinks == InitPair({"proof"}, {"theorem"})

NextLinks ==
  \/ CreateLink(LinkIds, RelClk, {""})
  \/ UpdateLink(LinkIds, RelClk, {"n"})
  \/ DeleteLink(LinkIds)
  \/ Tick

SpecLinks == InitLinks /\ [][NextLinks]_vars

\* --------------------------------------- SpecTags: tag calls as time passes
\* Two theorems, the tag calls, update_element with and without tags (one
\* list holds a tag of 129 characters), and the clock, which may also advance
\* between the two now_utc_iso() of one update_element.
TagA == <<"a">>
TagB == <<"b">>
LongTag == [i \in 1..(MaxTagLen + 1) |-> "x"]
TagsClk == {<<TagA>>, <<TagB, TagA>>}

InitTags == InitPair({"theorem"}, {"theorem"})

NextTags ==
  \/ SetTags(ElemIds, TagsClk)
  \/ AddTags(ElemIds, TagsClk)
  \/ RemoveTags(ElemIds, TagsClk)
  \/ ClearTags(ElemIds)
  \/ UpdateElement(ElemIds, {}, {}, {}, {}, TagsClk \cup {<<TagA, LongTag>>}, {0, 1})
  \/ Tick

SpecTags == InitTags /\ [][NextTags]_vars

\* ------------------------------------ SpecCreate: create_element, any type
\* One element id on a store that starts empty: create_element with every
\* type, every format or none, a title with a leading blank, with and without
\* a tag list that needs trimming and deduplication; and delete_element.
TitleCreate == {<<" ", "t">>}
TagsCreate == {<<<<"a">>, <<"b">>, <<"a">>, <<" ", "c", " ">>>>}

NextCreate ==
  \/ CreateElement({1}, ELEMENT_TYPES, TitleCreate, BodyIn, Opt(FORMATS),
                   TagsCreate, {0})
  \/ DeleteElement({1})

SpecCreate == Init /\ [][NextCreate]_vars

\* ------------------------------- SpecUpdate: create and update, any input
\* One element id: create_element and update_element with valid and invalid
\* values of every field (a type and a format outside the enumerations, a
\* blank title, an empty and a blank body), and delete_element.
TypeCreate == {"lemma", "bogus"}
TitleBlank == {<<"t">>, <<" ">>}
BodyEmpty == {<<"b">>, <<>>}
FormatCreate == {None, Some("pdf")}
TypeUpdate == {"theorem", "bogus"}
TitleUpdate == {<<"u">>, <<" ">>}
BodyUpdate == {<<"c">>, <<"\n">>}
FormatUpdate == {"latex", "pdf"}
TagsUpdate == {<<<<" ", "b">>, <<"a">>>>, <<>>}

NextUpdate ==
  \/ CreateElement({1}, TypeCreate, TitleBlank, BodyEmpty, FormatCreate,
                   {<<TagA>>}, {0})
  \/ UpdateElement({1}, TypeUpdate, TitleUpdate, BodyUpdate, FormatUpdate,
                   TagsUpdate, {0})
  \/ DeleteElement({1})

SpecUpdate == Init /\ [][NextUpdate]_vars

\* ------------------------------- SpecClock: every kind of call, with time
\* A proof (element 1) and a theorem (element 2) created at time 0; then
\* update_element, the tag calls, the link calls, delete_element and
\* create_element of element 2, and the clock.
NextClock ==
  \/ UpdateElement(ElemIds, {"lemma"}, {}, {}, {}, {<<TagA>>}, {0, 1})
  \/ SetTags(ElemIds, {<<TagA>>})
  \/ AddTags(ElemIds, {<<TagA>>})
  \/ RemoveTags(ElemIds, {<<TagA>>})
  \/ ClearTags(ElemIds)
  \/ CreateLink({1}, {"related"}, {""})
  \/ UpdateLink({1}, {"related"}, {"n"})
  \/ DeleteLink({1})
  \/ DeleteElement({2})
  \/ CreateElement({2}, {"theorem"}, TitleIn, BodyIn, FormatIn, {}, {0})
  \/ Tick

SpecClock == InitLinks /\ [][NextClock]_vars

\* ------------------------------------ SpecNorm: tag lists to be normalised
\* Two theorems and the tag calls, with lists that hold a tag twice, tags
\* with blanks around them, an upper-case tag and the empty list.
TagsNorm ==
  {<<<<"a">>, <<"b">>, <<"a">>, <<" ", "c", " ">>>>,
   <<<<"b">>, <<" ", "b">>>>,
   <<<<"a">>, <<"B">>>>,
   <<>>}

NextNorm ==
  \/ SetTags(ElemIds, TagsNorm)
  \/ AddTags(ElemIds, TagsNorm)
  \/ RemoveTags(ElemIds, TagsNorm)
  \/ ClearTags(ElemIds)

SpecNorm == InitTags /\ [][NextNorm]_vars

\* --------------------------------- SpecConc: two callers run set_tags
\* Element 1 has the tags "b" and "c".  Two callers, each on its own
\* connection, call set_tags on it, one with ["a", " c"] and one with ["b"]
\* or either with both, their statements interleaved in every way SQLite
\* allows; the main connection reads the tags in between.
Callers == {"A", "B"}
TagsConc == {<<<<"a">>, <<" ", "c">>>>, <<<<"b">>>>}
TagsBefore == {<<"b">>, <<"c">>}

InitConc ==
  /\ prev = WithElements(EmptyDb, {NewElement(1, "theorem")})
  /\ conn = WithTags(prev,
       {[element_id |-> 1, tag |-> t, created_at |-> 0] : t \in TagsBefore})
  /\ disk = conn
  /\ now = 0
  /\ last = [op |-> "set_tags", args |-> [id |-> 1, tags |-> <<<<"b">>, <<"c">>>>],
             err |-> Ok, ret |-> None, at |-> 0]
  /\ callers = [c \in Callers |-> IdleCaller]

NextConc ==
  \/ \E c \in Callers : SetTagsBegin(c, {1}, TagsConc)
  \/ \E c \in Callers : SetTagsDelete(c)
  \/ \E c \in Callers : SetTagsBusy(c)
  \/ \E c \in Callers : SetTagsInsert(c)
  \/ \E c \in Callers : SetTagsCommit(c)
  \/ \E c \in Callers : SetTagsReturn(c)
  \/ ListTags({1})

SpecConc == InitConc /\ [][NextConc]_vars

\* ----------------------------- SpecMissing: calls on ids that do not exist
\* A proof (element 1) and a theorem (element 2), one link id in use at most
\* of two; update and delete of elements and links on ids present and absent,
\* with valid and invalid values of the fields (a type, a format and a
\* relation outside the enumerations, a blank title, a tag that is blank).
TypeMissing == {"theorem", "bogus"}
RelMissing == {"related", "cites"}

NextMissing ==
  \/ UpdateElement(ElemIds, TypeMissing, {<<" ">>}, {}, {"pdf"}, {<<<<" ">>>>}, {0})
  \/ DeleteElement(ElemIds)
  \/ CreateLink({1}, {"proves", "related"}, {""})
  \/ UpdateLink(LinkIds, RelMissing, {"n"})
  \/ DeleteLink(LinkIds)

SpecMissing == InitLinks /\ [][NextMissing]_vars

\* ------------------------------ SpecCollide: create calls on ids in use
\* A proof (element 1) and a theorem (element 2); create_element and
\* create_link on ids free and in use, the create_element with a type inside
\* and outside the enumeration and with tags; set_tags, delete_element of
\* element 2, delete_link of link 1, and the clock.
TypeCollide == {"proof", "bogus"}

NextCollide ==
  \/ CreateElement(ElemIds, TypeCollide, TitleIn, BodyIn, FormatIn, {<<TagA>>}, {0})
  \/ SetTags({2}, {<<TagB>>})
  \/ DeleteElement({2})
  \/ CreateLink(LinkIds, {"proves", "related"}, {"n"})
  \/ DeleteLink({1})
  \/ Tick

SpecCollide == InitLinks /\ [][NextCollide]_vars

\* ------------------------------------ SpecAdapter: requests and commands
\* A proof (element 1) and a theorem (element 2) and no link: the HTTP
\* requests and CLI commands that name an element or a link, on ids present
\* and, after a delete, absent.
TagsAdapter == {<<TagA>>, <<>>}

NextAdapter ==
  \/ HttpRequest(ElemIds, {1}, TagsAdapter)
  \/ CliCommand(ElemIds, {1}, TagsAdapter)

SpecAdapter == InitLinks /\ [][NextAdapter]_vars

\* --------------------------------- SpecList: the listings, any arguments
\* A proof (element 1) and a theorem (element 2); element 1 may get the tag
\* "a" and the link "proves" to element 2.  list_elements and list_links are
\* called with and without filters (a relation outside the enumeration among
\* them), with limits 0 and 1, offsets -1 and 0, and with order_by and
\* order_dir values inside and outside the accepted ones.
LimitList == {0, 1}
OffsetList == {-1, 0}
OrderDirList == {"asc", "down"}

NextList ==
  \/ SetTags({1}, {<<TagA>>})
  \/ CreateLink({1}, {"proves"}, {""})
  \/ ListElements({"proof"}, {}, {TagA}, {}, LimitList, OffsetList,
                  {"title", "id"}, OrderDirList, {FALSE})
  \/ ListLinks({1}, {}, {"proves", "cites"}, LimitList, OffsetList,
               {"rel", "title"}, OrderDirList)

SpecList == InitLinks /\ [][NextList]_vars

\* ------------------------------------- SpecFind: list_elements by tag
\* A proof (element 1) and a theorem (element 2), both "plain"; set_tags
\* gives either the tags "a", or "a" and "b", or none, update_element makes
\* element 1 "latex"; list_elements is called without pagination with a tag
\* (one to be trimmed) or none, and with a type or a format filter or none.
TagsFind == {<<TagA>>, <<TagA, TagB>>, <<>>}

NextFind ==
  \/ SetTags(ElemIds, TagsFind)
  \/ UpdateElement({1}, {}, {}, {}, {"latex"}, {}, {0})
  \/ ListElements({"proof", "theorem"}, {}, {<<" ", "a">>, TagB}, {"plain"},
                  {}, {}, {"updated_at"}, {"DESC"}, {FALSE})

SpecFind == InitLinks /\ [][NextFind]_vars

\* ----------------------------- SpecFor: the links of an element
\* Two theorems; up to three links "implies" and "related" are created in
\* either direction between them and deleted; list_links_for_element is
\* called without a limit for element 1, with each direction (one in upper
\* case, one empty) and with a relation or none.
DirectionFor == {"out", "IN", "both", ""}
RelFor == {"implies", "related"}
LinkIdsFor == 1..(MaxLinks + 1)

NextFor ==
  \/ CreateLink(LinkIdsFor, RelFor, {""})
  \/ DeleteLink(LinkIdsFor)
  \/ ListLinksForElement({1}, DirectionFor, RelFor, {})

SpecFor == InitTags /\ [][NextFor]_vars

\* --------------------------------------- SpecInit: init_db, run again
\* A database file without tables.  init_db runs first, and again between
\* the other calls: create_element (one tag list holds a blank tag),
\* set_tags, create_link, delete_element, and a new connection.
InitBlank ==
  /\ conn = NoTables
  /\ disk = NoTables
  /\ now = 0
  /\ last = [op |-> "connect", args |-> <<>>, err |-> Ok, ret |-> None, at |-> 0]
  /\ prev = NoTables
  /\ callers = NoCallers

NextInit ==
  \/ InitDb
  \/ /\ conn # NoTables
     /\ \/ CreateElement(ElemIds, {"theorem"}, TitleIn, BodyIn, FormatIn, TagsIn, {0})
        \/ SetTags({1}, {<<TagB>>})
        \/ CreateLink({1}, {"implies"}, {""})
        \/ DeleteElement({2})
        \/ Reconnect

SpecInit == InitBlank /\ [][NextInit]_vars

\* ------------------------- SpecPrec: create_link, several things wrong
\* Two elements, each a proof, a theorem, a definition or an example;
\* either may be deleted.  create_link is called with every relation and one
\* value that is none, between the two ids and from an id to itself.
TypesPrec == {"proof", "theorem", "definition", "example"}

InitPrec == InitPair(TypesPrec, TypesPrec)

NextPrec ==
  \/ CreateLink({1}, LINK_RELATIONS \cup {"cites"}, {""})
  \/ DeleteElement(ElemIds)

SpecPrec == InitPrec /\ [][NextPrec]_vars

\* ----------------------- SpecNote: update_link after the types changed
\* A proof (element 1) and a theorem (element 2).  Link 1 is created as
\* "proves" or "related"; update_element may turn either element into a
\* remark; update_link is called with a note, a relation or both, as time
\* passes.
NotesNote == {"n", "m"}

NextNote ==
  \/ CreateLink({1}, {"proves", "related"}, {""})
  \/ UpdateElement(ElemIds, {"remark"}, {}, {}, {}, {}, {0})
  \/ UpdateLink({1}, {"proves"}, NotesNote)
  \/ Tick

SpecNote == InitLinks /\ [][NextNote]_vars

\* ------------------------ SpecDup: update_link onto a triple in use
\* A proof (element 1) and a theorem (element 2); two links "proves" and
\* "related" are created between them and updated with a relation, a note or
\* both; update_element may turn the proof into a remark; the clock.
NextDup ==
  \/ CreateLink(LinkIds, {"proves", "related"}, {""})
  \/ UpdateLink(LinkIds, {"proves", "related"}, {"n"})
  \/ UpdateElement({1}, {"remark"}, {}, {}, {}, {}, {0})
  \/ Tick

SpecDup == InitLinks /\ [][NextDup]_vars

\* --------------------------- SpecFrame: what a call leaves untouched
\* Three theorems, each with tags, and the links "related" from element 1 to
\* element 2 and from element 2 to element 3, as create_element and
\* create_link leave them; then delete_element and the tag calls on each of
\* the three ids.
ElemIdsFrame == 1..(MaxElems + 1)

InitFrame ==
  /\ conn = [elements |-> {NewElement(i, "theorem") : i \in ElemIdsFrame},
             element_tags |->
               {[element_id |-> 1, tag |-> TagA, created_at |-> 0],
                [element_id |-> 2, tag |-> TagA, created_at |-> 0],
                [element_id |-> 2, tag |-> TagB, created_at |-> 0],
                [element_id |-> 3, tag |-> TagB, created_at |-> 0]},
             element_links |->
               {[id |-> 1, src_id |-> 1, dst_id |-> 2, rel |-> "related",
                 note |-> "", created_at |-> 0, updated_at |-> 0],
                [id |-> 2, src_id |-> 2, dst_id |-> 3, rel |-> "related",
                 note |-> "", created_at |-> 0, updated_at |-> 0]}]
  /\ disk = conn
  /\ prev = WithLinks(conn, {l \in conn.element_links : l.id = 1})
  /\ now = 0
  /\ last = [op |-> "create_link",
             args |-> [id |-> 2, src_id |-> 2, dst_id |-> 3, rel |-> "related",
                       note |-> ""],
             err |-> Ok, ret |-> Some(2), at |-> 0]
  /\ callers = NoCallers

NextFrame ==
  \/ DeleteElement(ElemIdsFrame)
  \/ SetTags(ElemIdsFrame, {<<TagB>>, <<TagA, <<" ">>>>})
  \/ AddTags(ElemIdsFrame, {<<TagA>>})
  \/ RemoveTags(ElemIdsFrame, {<<TagA>>})
  \/ ClearTags(ElemIdsFrame)

SpecFrame == InitFrame /\ [][NextFrame]_vars

\* ------------------------------------------- the relation-semantics table
\* The table of the specification (section 4.3), written as the claims read it.
TableStatements ==
  {"axiom", "postulate", "lemma", "proposition", "theorem", "corollary"}

TableDefLike ==
  {"definition", "lemma", "proposition", "theorem", "corollary"}

TableSrc(rel) ==
  CASE rel = "proves" -> {"proof"}
    [] rel = "uses" -> TableStatements \cup {"proof"}
    [] rel = "implies" -> TableStatements
    [] rel = "equivalent_to" -> TableDefLike
    [] rel = "example_of" -> {"example"}
    [] rel = "counterexample_to" -> {"counterexample"}
    [] rel = "related" -> ELEMENT_TYPES

TableDst(rel) ==
  CASE rel = "proves" -> {"lemma", "proposition", "theorem", "corollary"}
    [] rel = "uses" -> TableStatements \cup {"definition"}
    [] rel = "implies" -> TableStatements
    [] rel = "equivalent_to" -> TableDefLike
    [] rel = "example_of" -> TableDefLike
    [] rel = "counterexample_to" -> TableDefLike
    [] rel = "related" -> ELEMENT_TYPES

\* The tables of `d` hold a link only between endpoints the table allows.
TableHolds(d) ==
  \A l \in d.element_links :
    /\ HasElement(d, l.src_id) /\ HasElement(d, l.dst_id)
    /\ ElementRow(d, l.src_id).type \in TableSrc(l.rel)
    /\ ElementRow(d, l.dst_id).type \in TableDst(l.rel)

\* The errors of the specification's taxonomy, as the exceptions of the code.
IsValidationError(err) == err.exc = "ValueError"
SelfLink == ValueError("src_id and dst_id must differ")
IncompatibleRelation ==
  {ValueError("rel requires src type in allowed_src"),
   ValueError("rel requires dst type in allowed_dst")}

\* ----------------------------------------------------------------- claims
\* C1: in every reachable state every stored link satisfies the
\* relation-semantics table: its source element's current type is in the
\* allowed source set of its rel, its destination's in the destination set.
C1_LinksSatisfyTable == TableHolds(conn)

\* C2: a repository call that fails with a validation error has executed no
\* mutating statement: the connection's tables are those the call began
\* with, so nothing of it can be committed by a later call.
C2_ValidationFailsFast == IsValidationError(last.err) => conn = prev

\* C3: at most one link exists for any (src_id, dst_id, rel) triple, also
\* after an update_link that changes rel to one another link between the
\* same endpoints has.
UniqueTriples(d) ==
  \A l1 \in d.element_links : \A l2 \in d.element_links :
    (l1.src_id = l2.src_id /\ l1.dst_id = l2.dst_id /\ l1.rel = l2.rel)
      => l1 = l2

C3_OneLinkPerTriple == UniqueTriples(conn) /\ UniqueTriples(disk)

\* C3's case: update_link asked for the rel a second link between the same
\* endpoints has, and the unique index refused it.
C3_Witness ==
  /\ last.op = "update_link"
  /\ ~IsNone(last.args.rel)
  /\ last.err.exc = "sqlite3.IntegrityError"
  /\ \E l \in prev.element_links :
       /\ l.id # last.args.id
       /\ l.rel = Val(last.args.rel)
       /\ l.src_id = LinkRow(prev, last.args.id).src_id
       /\ l.dst_id = LinkRow(prev, last.args.id).dst_id

\* C4: no orphaned references: every tag association's element_id and every
\* link's src_id and dst_id name an element that exists.
NoOrphans(d) ==
  /\ \A t \in d.element_tags : HasElement(d, t.element_id)
  /\ \A l \in d.element_links :
       HasElement(d, l.src_id) /\ HasElement(d, l.dst_id)

C4_NoOrphans == NoOrphans(conn) /\ NoOrphans(disk)

\* C4's case: add_tags or set_tags with a valid tag for an element id that
\* does not exist.
C4_Witness ==
  /\ last.op \in {"add_tags", "set_tags"}
  /\ ~HasElement(prev, last.args.id)
  /\ normalize_tags(last.args.tags).err = Ok
  /\ Len(last.args.tags) > 0
  /\ last.err.exc = "sqlite3.IntegrityError"

\* C5: delete_element(id) on an existing element removes the element, its
\* tag associations and every link it is source or destination of:
\* get_element(id) and get_link of each such link are not-found and
\* list_tags(id) is empty, on the connection and on disk.
C5_DeleteCascades ==
  (last.op = "delete_element" /\ HasElement(prev, last.args.id)) =>
    /\ last.err = Ok /\ last.ret = Some(Bool(TRUE))
    /\ IsNone(get_element(conn, last.args.id))
    /\ tags_of(conn, last.args.id) = {}
    /\ \A l \in prev.element_links :
         (l.src_id = last.args.id \/ l.dst_id = last.args.id)
           => IsNone(get_link(conn, l.id))
    /\ disk = conn

\* C5's case: the deleted element had a tag, a link leaving it and a link
\* reaching it.
C5_Witness ==
  /\ last.op = "delete_element"
  /\ tags_of(prev, last.args.id) # {}
  /\ \E l \in prev.element_links : l.src_id = last.args.id
  /\ \E l \in prev.element_links : l.dst_id = last.args.id

\* C6: for every relation and every pair of distinct existing elements of any
\* types, create_link with no prior link of that triple (and a link id not in
\* use) succeeds exactly when the table allows the source type as source and
\* the destination type as destination of rel, and stores that link; it fails
\* with IncompatibleRelation, storing nothing, otherwise.
C6_Case ==
  /\ last.op = "create_link"
  /\ last.args.rel \in LINK_RELATIONS
  /\ last.args.src_id # last.args.dst_id
  /\ HasElement(prev, last.args.src_id)
  /\ HasElement(prev, last.args.dst_id)
  /\ ~HasLink(prev, last.args.id)
  /\ ~\E l \in prev.element_links :
        /\ l.src_id = last.args.src_id
        /\ l.dst_id = last.args.dst_id
        /\ l.rel = last.args.rel

C6_TableAllows ==
  /\ ElementRow(prev, last.args.src_id).type \in TableSrc(last.args.rel)
  /\ ElementRow(prev, last.args.dst_id).type \in TableDst(last.args.rel)

C6_CreateLinkFollowsTable ==
  C6_Case =>
    IF C6_TableAllows
    THEN /\ last.err = Ok
         /\ last.ret = Some(last.args.id)
         /\ \E l \in conn.element_links :
              /\ l.id = last.args.id
              /\ l.src_id = last.args.src_id
              /\ l.dst_id = last.args.dst_id
              /\ l.rel = last.args.rel
              /\ conn.element_links = prev.element_links \cup {l}
         /\ disk = conn
    ELSE /\ last.err \in IncompatibleRelation
         /\ conn = prev

\* C6's case: theorem -> proof `proves` (the reversed direction) was refused.
C6_Witness ==
  /\ C6_Case
  /\ last.args.rel = "proves"
  /\ ElementRow(prev, last.args.src_id).type = "theorem"
  /\ ElementRow(prev, last.args.dst_id).type = "proof"
  /\ last.err \in IncompatibleRelation

\* C7: a second create_link of an existing (src, dst, rel) triple fails with
\* the DuplicateLink error, a caller-input error and not a raw exception of
\* the store; no second link is stored and the original link is unchanged.
C7_DuplicateLinkNamed ==
  (/\ last.op = "create_link"
   /\ \E l \in prev.element_links :
        /\ l.src_id = last.args.src_id
        /\ l.dst_id = last.args.dst_id
        /\ l.rel = last.args.rel)
  => (IsValidationError(last.err) /\ conn = prev)


\* C8: create_link with src_id equal to dst_id fails with SelfLink for each
\* of the 7 relations and stores nothing; no stored link has src_id = dst_id.
C8_NoSelfLink ==
  /\ (/\ last.op = "create_link"
      /\ last.args.src_id = last.args.dst_id
      /\ last.args.rel \in LINK_RELATIONS)
     => (last.err = SelfLink /\ conn = prev)
  /\ \A l \in conn.element_links \cup disk.element_links : l.src_id # l.dst_id

\* C8's case: a create_link of an existing element to itself, with a relation
\* whose table would allow the element's type on both sides.
C8_Witness ==
  /\ last.op = "create_link"
  /\ last.args.src_id = last.args.dst_id
  /\ HasElement(prev, last.args.src_id)
  /\ last.args.rel = "related"
  /\ last.err = SelfLink

\* C9: update_link(id, rel=r) on an existing link validates r against the
\* types of the link's stored endpoints; when the table does not allow them
\* the call fails with IncompatibleRelation and the link row (rel, note,
\* updated_at) is as before.
C9_Case ==
  /\ last.op = "update_link"
  /\ HasLink(prev, last.args.id)
  /\ ~IsNone(last.args.rel)
  /\ Val(last.args.rel) \in LINK_RELATIONS
  /\ LET e == LinkRow(prev, last.args.id)
     IN  ~(/\ ElementRow(prev, e.src_id).type \in TableSrc(Val(last.args.rel))
           /\ ElementRow(prev, e.dst_id).type \in TableDst(Val(last.args.rel)))

C9_UpdateLinkRevalidates ==
  C9_Case =>
    /\ last.err \in IncompatibleRelation
    /\ HasLink(conn, last.args.id)
    /\ LinkRow(conn, last.args.id) = LinkRow(prev, last.args.id)
    /\ conn = prev

\* C9's case: the refused update came with a note, a second after the link
\* was last written.
C9_Witness ==
  /\ C9_Case
  /\ ~IsNone(last.args.note)
  /\ Val(last.args.note) # LinkRow(prev, last.args.id).note
  /\ last.at > LinkRow(prev, last.args.id).updated_at

\* C10: every mutation of an element sets its updated_at to the time of the
\* call: update_element, and set_tags called on its own.
C10_UpdatedAtRefreshed ==
  (/\ last.op \in {"update_element", "set_tags"}
   /\ last.err = Ok
   /\ HasElement(prev, last.args.id))
  => ElementRow(conn, last.args.id).updated_at = last.at

\* The text of a valid tag: not blank, at most 128 characters once trimmed.
ValidTag(tag) == strip(tag) # <<>> /\ Len(strip(tag)) <= 128

\* `result` is the list of the trimmed tags of `tags`, each once, ascending.
IsNormalizedSorted(result, tags) ==
  /\ {result[i] : i \in 1..Len(result)} = {strip(tags[i]) : i \in 1..Len(tags)}
  /\ \A i \in 1..Len(result) : \A j \in 1..Len(result) :
       i < j => memcmp_less(result[i], result[j])

\* C11: create_element with a valid type, a valid format (or none), a
\* non-blank title and body and valid tags (or none), under an id not in use,
\* succeeds, and get_element on the returned id gives the same type, title,
\* body and format (`plain` when omitted), created_at equal to updated_at,
\* and as tags the trimmed, deduplicated, ascending list of the tags given.
C11_Case ==
  /\ last.op = "create_element"
  /\ last.args.type \in ELEMENT_TYPES
  /\ IsNone(last.args.format) \/ Val(last.args.format) \in FORMATS
  /\ strip(last.args.title) # <<>>
  /\ strip(last.args.body) # <<>>
  /\ IsNone(last.args.tags)
       \/ \A i \in 1..Len(Val(last.args.tags)) : ValidTag(Val(last.args.tags)[i])
  /\ ~HasElement(prev, last.args.id)

C11_CreateThenGet ==
  C11_Case =>
    /\ last.err = Ok
    /\ ~IsNone(last.ret)
    /\ ~IsNone(get_element(conn, Val(last.ret)))
    /\ LET e == Val(get_element(conn, Val(last.ret)))
       IN  /\ e.type = last.args.type
           /\ e.title = last.args.title
           /\ e.body = last.args.body
           /\ e.format = IF IsNone(last.args.format) THEN "plain"
                                                     ELSE Val(last.args.format)
           /\ e.created_at = e.updated_at
           /\ IsNormalizedSorted(e.tags,
                IF IsNone(last.args.tags) THEN <<>> ELSE Val(last.args.tags))
    /\ disk = conn

\* C11's case: an element created without a format and with the tag list
\* ["a", "b", "a", " c "].
C11_Witness ==
  /\ C11_Case
  /\ IsNone(last.args.format)
  /\ last.args.tags = Some(<<<<"a">>, <<"b">>, <<"a">>, <<" ", "c", " ">>>>)
  /\ Val(get_element(conn, last.args.id)).tags = <<<<"a">>, <<"b">>, <<"c">>>>

\* The value update_element is to leave in a field: the one supplied, else
\* the prior one.
Supplied(given, prior) == IF IsNone(given) THEN prior ELSE Val(given)

\* C12: a successful update_element on an existing element changes only the
\* fields supplied: each of type, title, body and format not supplied keeps
\* its prior value (a supplied one takes the value given), and the tag
\* associations are unchanged unless `tags` is supplied, when the tags
\* become the normalized list.
C12_Case ==
  /\ last.op = "update_element"
  /\ HasElement(prev, last.args.id)
  /\ last.err = Ok

C12_PartialUpdate ==
  C12_Case =>
    /\ last.ret = Some(Bool(TRUE))
    /\ HasElement(conn, last.args.id)
    /\ LET old == ElementRow(prev, last.args.id)
           new == ElementRow(conn, last.args.id)
       IN  /\ new.type = Supplied(last.args.type, old.type)
           /\ new.title = Supplied(last.args.title, old.title)
           /\ new.body = Supplied(last.args.body, old.body)
           /\ new.format = Supplied(last.args.format, old.format)
    /\ IF IsNone(last.args.tags)
       THEN conn.element_tags = prev.element_tags
       ELSE IsNormalizedSorted(list_tags(conn, last.args.id), Val(last.args.tags))
    /\ disk = conn

\* C12's case: only the body was supplied, on an element that has a tag and
\* a format other than the default.
C12_Witness ==
  /\ C12_Case
  /\ IsNone(last.args.type) /\ IsNone(last.args.title)
  /\ IsNone(last.args.format) /\ IsNone(last.args.tags)
  /\ ~IsNone(last.args.body)
  /\ Val(last.args.body) # ElementRow(prev, last.args.id).body
  /\ ElementRow(prev, last.args.id).format = "latex"
  /\ tags_of(prev, last.args.id) # {}

\* C15: every stored element has a type of the 11, a format of the 4, and a
\* title and a body with at least one non-whitespace character; a
\* create_element or update_element whose resulting (merged) record would
\* not is rejected with a validation error and changes nothing.
ValidElement(e) ==
  /\ e.type \in {"axiom", "postulate", "definition", "lemma", "proposition",
                  "theorem", "corollary", "proof", "example", "counterexample",
                  "remark"}
  /\ e.format \in {"plain", "markdown", "latex", "html"}
  /\ \E i \in 1..Len(e.title) : e.title[i] \notin Whitespace
  /\ \E i \in 1..Len(e.body) : e.body[i] \notin Whitespace

\* The record a create_element or update_element call asks for.
C15_Asked ==
  IF last.op = "create_element"
  THEN [type |-> last.args.type, title |-> last.args.title,
        body |-> last.args.body,
        format |-> Supplied(last.args.format, "plain")]
  ELSE LET old == ElementRow(prev, last.args.id)
       IN  [type |-> Supplied(last.args.type, old.type),
            title |-> Supplied(last.args.title, old.title),
            body |-> Supplied(last.args.body, old.body),
            format |-> Supplied(last.args.format, old.format)]

C15_Case ==
  /\ \/ last.op = "create_element"
     \/ last.op = "update_element" /\ HasElement(prev, last.args.id)
  /\ ~ValidElement(C15_Asked)

C15_ElementsValid ==
  /\ \A e \in conn.elements \cup disk.elements : ValidElement(e)
  /\ C15_Case => (IsValidationError(last.err) /\ conn = prev)

\* C15's case: update_element with a blank title on an existing element.
C15_Witness ==
  /\ C15_Case
  /\ last.op = "update_element"
  /\ last.args.title = Some(<<" ">>)
  /\ IsNone(last.args.type) /\ IsNone(last.args.format)
  /\ IsNone(last.args.body)

\* C13: update_element on an existing element with no field supplied leaves
\* its type, format, title, body and tags (and everything else stored) as
\* they were and sets its updated_at to the time of the call, each time it
\* is called.
C13_Case ==
  /\ last.op = "update_element"
  /\ HasElement(prev, last.args.id)
  /\ IsNone(last.args.type) /\ IsNone(last.args.title)
  /\ IsNone(last.args.body) /\ IsNone(last.args.format)
  /\ IsNone(last.args.tags)

C13_EmptyUpdateRefreshes ==
  C13_Case =>
    /\ last.err = Ok /\ last.ret = Some(Bool(TRUE))
    /\ conn.elements =
         (prev.elements \ {ElementRow(prev, last.args.id)})
           \cup {[ElementRow(prev, last.args.id) EXCEPT !.updated_at = last.at]}
    /\ conn.element_tags = prev.element_tags
    /\ conn.element_links = prev.element_links
    /\ disk = conn

\* C13's case: the call comes a second after the element was last written,
\* on an element that has tags.
C13_Witness ==
  /\ C13_Case
  /\ ElementRow(prev, last.args.id).updated_at < last.at
  /\ tags_of(prev, last.args.id) # {}

\* C14: across every step, an element that exists before and after the step
\* is stored under the same id, once, with the same created_at: no
\* update_element, tag call or link call changes them.
C14_CreatedAtImmutable ==
  \A e \in prev.elements :
    HasElement(conn, e.id) =>
      /\ Cardinality({x \in conn.elements : x.id = e.id}) = 1
      /\ ElementRow(conn, e.id).created_at = e.created_at

\* C14's case: an update_element that changed the type and replaced the
\* tags of an element a second after it was created.
C14_Witness ==
  /\ last.op = "update_element"
  /\ last.err = Ok
  /\ HasElement(prev, last.args.id)
  /\ ~IsNone(last.args.type) /\ ~IsNone(last.args.tags)
  /\ ElementRow(prev, last.args.id).created_at < last.at
  /\ ElementRow(conn, last.args.id).updated_at = last.at

\* The trimmed tags of a tag list, as a set.
TrimmedSet(tags) == {strip(tags[i]) : i \in 1..Len(tags)}

\* The tag rows of the elements other than `element_id`.
OtherTagRows(d, element_id) ==
  {r \in d.element_tags : r.element_id # element_id}

\* C16: set_tags(id, tags) on an existing element with valid tags succeeds,
\* and list_tags(id) then returns exactly the trimmed tags, each once, in
\* ascending order, whatever tags the element had before; the tags of other
\* elements are untouched.
C16_Case ==
  /\ last.op = "set_tags"
  /\ HasElement(prev, last.args.id)
  /\ \A i \in 1..Len(last.args.tags) : ValidTag(last.args.tags[i])

C16_SetThenList ==
  C16_Case =>
    /\ last.err = Ok
    /\ IsNormalizedSorted(list_tags(conn, last.args.id), last.args.tags)
    /\ OtherTagRows(conn, last.args.id) = OtherTagRows(prev, last.args.id)
    /\ disk = conn

\* C16's case: set_tags(id, ["a", "b", "a", " c "]) on an element that had
\* the tags "B" and "a" gives ["a", "b", "c"].
C16_Witness ==
  /\ C16_Case
  /\ last.args.tags = <<<<"a">>, <<"b">>, <<"a">>, <<" ", "c", " ">>>>
  /\ tags_of(prev, last.args.id) = {<<"B">>, <<"a">>}
  /\ list_tags(conn, last.args.id) = <<<<"a">>, <<"b">>, <<"c">>>>

\* C20: remove_tags(id, tags) with valid tags deletes exactly the tag rows of
\* the element whose tag is one of the trimmed tags and returns how many it
\* deleted; clear_tags(id) deletes all tag rows of the element and returns
\* how many there were.
C20_Removed ==
  {r \in prev.element_tags :
     /\ r.element_id = last.args.id
     /\ last.op = "remove_tags" => r.tag \in TrimmedSet(last.args.tags)}

C20_Case ==
  \/ /\ last.op = "remove_tags"
     /\ \A i \in 1..Len(last.args.tags) : ValidTag(last.args.tags[i])
  \/ last.op = "clear_tags"

C20_RemoveAndClearCount ==
  C20_Case =>
    /\ last.err = Ok
    /\ conn.element_tags = prev.element_tags \ C20_Removed
    /\ last.ret = Some(Cardinality(C20_Removed))
    /\ conn.elements = prev.elements
    /\ disk = conn

\* C20's case: remove_tags(id, ["a", "b", "a", " c "]) on an element with
\* the tags "B" and "a" deletes one row and returns 1.
C20_Witness ==
  /\ last.op = "remove_tags"
  /\ last.args.tags = <<<<"a">>, <<"b">>, <<"a">>, <<" ", "c", " ">>>>
  /\ tags_of(prev, last.args.id) = {<<"B">>, <<"a">>}
  /\ tags_of(conn, last.args.id) = {<<"B">>}
  /\ last.ret = Some(1)

\* C19: add_tags(id, tags) on an existing element with valid tags inserts
\* exactly the trimmed tags the element did not have, each once and with the
\* time of the call, leaves every existing tag row (its created_at too)
\* untouched, and returns the number of rows inserted; the element's tags
\* become the union of its prior tags and the trimmed input.
C19_Case ==
  /\ last.op = "add_tags"
  /\ HasElement(prev, last.args.id)
  /\ \A i \in 1..Len(last.args.tags) : ValidTag(last.args.tags[i])

C19_AddTagsUnion ==
  C19_Case =>
    /\ last.err = Ok
    /\ prev.element_tags \subseteq conn.element_tags
    /\ conn.element_tags \ prev.element_tags =
         {[element_id |-> last.args.id, tag |-> t, created_at |-> last.at] :
            t \in TrimmedSet(last.args.tags) \ tags_of(prev, last.args.id)}
    /\ tags_of(conn, last.args.id) =
         tags_of(prev, last.args.id) \cup TrimmedSet(last.args.tags)
    /\ last.ret = Some(Cardinality(conn.element_tags \ prev.element_tags))
    /\ conn.elements = prev.elements
    /\ disk = conn

\* C19's case: add_tags(id, ["b", "a"]) a second after the element got the
\* tag "a": one row is inserted.
C19_Witness ==
  /\ C19_Case
  /\ last.args.tags = <<TagB, TagA>>
  /\ \E r \in prev.element_tags :
       r.element_id = last.args.id /\ r.tag = TagA /\ r.created_at < last.at
  /\ ~HasTag(prev, last.args.id, TagB)
  /\ last.ret = Some(1)

\* The tags of a list returned by list_tags, as a set.
ListedSet(ret) == {Val(ret)[i] : i \in 1..Len(Val(ret))}

\* The complete tag sets element 1 can have: the one it starts with and the
\* normalized set of each list a caller may pass.
CompleteSets == {TagsBefore} \cup {TrimmedSet(tags) : tags \in TagsConc}

\* C17: set_tags replaces the tag set atomically.  Under every interleaving
\* of the callers' statements, the committed tags of the element are a
\* complete set (the prior one or a caller's whole normalized set), they are
\* still the set a caller found for as long as that caller is between its
\* DELETE and its commit, and list_tags on another connection returns a
\* complete set, never the empty or partly inserted one in between.
C17_SetTagsAtomic ==
  /\ tags_of(disk, 1) \in CompleteSets
  /\ \A c \in DOMAIN callers :
       callers[c].pc = "insert" => tags_of(disk, callers[c].id) = callers[c].found
  /\ last.op = "list_tags" => ListedSet(last.ret) \in CompleteSets

\* C17's case: a caller has deleted the tags and inserted the first of its
\* two tags, and has not committed; the main connection reads the two prior
\* tags.
C17_Witness ==
  \E c \in DOMAIN callers :
    /\ callers[c].pc = "insert"
    /\ callers[c].tags = <<<<"a">>, <<" ", "c">>>>
    /\ tags_of(callers[c].view, 1) = {<<"a">>}
    /\ callers[c].found = TagsBefore
    /\ last.op = "list_tags"
    /\ last.ret = Some(<<<<"b">>, <<"c">>>>)
    /\ list_tags(conn, 1) = <<<<"b">>, <<"c">>>>

\* Both callers' set_tags calls have ended.
BothEnded == \A c \in DOMAIN callers : callers[c].pc = "done"

\* The calls ran concurrently: one began while the other was under way; and
\* they asked for different sets.
RanConcurrently ==
  /\ BothEnded
  /\ \E c \in DOMAIN callers : callers[c].overlap
  /\ \A c \in DOMAIN callers : \A o \in DOMAIN callers :
       c # o => TrimmedSet(callers[c].tags) # TrimmedSet(callers[o].tags)

\* The committed tags of element 1 are the normalized set of no caller.
NeitherSet ==
  \A c \in DOMAIN callers : tags_of(disk, 1) # TrimmedSet(callers[c].tags)

C21_Case ==
  \/ /\ last.op \in {"update_element", "delete_element"}
     /\ ~HasElement(prev, last.args.id)
  \/ /\ last.op \in {"update_link", "delete_link"}
     /\ ~HasLink(prev, last.args.id)

C21_AbsentIdReturnsFalse ==
  C21_Case =>
    /\ last.err = Ok
    /\ last.ret = Some(Bool(FALSE))
    /\ conn = prev

\* An update_link of a link that does not exist, given a relation outside the
\* enumeration, or an update_element of an element that does not exist,
\* given a type outside the enumeration and a blank title, has been made.
C21_Witness ==
  /\ C21_Case
  /\ \/ /\ last.op = "update_link"
        /\ last.args.rel = Some("cites")
     \/ /\ last.op = "update_element"
        /\ last.args.type = Some("bogus")
        /\ last.args.title = Some(<<" ">>)

\* C22: an identifier collision is never a silent overwrite.  A
\* create_element that has passed its validation and inserts under the id of
\* an existing element, and a create_link that has passed its validation and
\* inserts under the id of an existing link, fail with the store's
\* constraint-violation error, and every row (the existing record and its
\* tags among them) is as it was.
C22_Validated ==
  \/ /\ last.op = "create_element"
     /\ validate_type(last.args.type) = Ok
     /\ validate_format(IF IsNone(last.args.format) THEN default_format
                        ELSE Val(last.args.format)) = Ok
     /\ strip(last.args.title) # <<>>
     /\ strip(last.args.body) # <<>>
  \/ /\ last.op = "create_link"
     /\ validate_link_semantics(prev, last.args.src_id, last.args.dst_id,
                                last.args.rel) = Ok

C22_Case ==
  /\ C22_Validated
  /\ \/ last.op = "create_element" /\ HasElement(prev, last.args.id)
     \/ last.op = "create_link" /\ HasLink(prev, last.args.id)

C22_CollisionFails ==
  C22_Case =>
    /\ last.err.exc = "sqlite3.IntegrityError"
    /\ last.ret = None
    /\ conn = prev

\* A create_element under the id of an element of another type that has a
\* tag, or a create_link under the id of a link between other endpoints, has
\* been made a second after the existing row was written.
C22_Witness ==
  /\ C22_Case
  /\ \/ /\ last.op = "create_element"
        /\ ElementRow(prev, last.args.id).type # last.args.type
        /\ ElementRow(prev, last.args.id).created_at # last.at
        /\ tags_of(prev, last.args.id) # {}
     \/ /\ last.op = "create_link"
        /\ LinkRow(prev, last.args.id).rel # last.args.rel
        /\ LinkRow(prev, last.args.id).created_at # last.at

\* C23: every adapter request that addresses an element or a link by an id
\* that does not exist ends in a visible not-found failure: status 404 from
\* every HTTP route under /elements/<id> and /links/<id>, a non-zero exit
\* code from every CLI command that takes an id.
HttpRoutes ==
  {"elements_get", "elements_delete", "tags_get", "tags_set_route",
   "tags_add_route", "tags_delete_route", "links_for_element_route",
   "links_get_route"}

CliCommands ==
  {"cmd_get", "cmd_delete", "cmd_tags_list", "cmd_tags_add", "cmd_tags_remove",
   "cmd_tags_set", "cmd_tags_clear", "cmd_links_for", "cmd_links_get"}

C23_Case ==
  /\ last.op \in HttpRoutes \cup CliCommands
  /\ IF last.op \in {"links_get_route", "cmd_links_get"}
       THEN ~HasLink(prev, last.args.id)
       ELSE ~HasElement(prev, last.args.id)

C23_AbsentIdIsNotFound ==
  C23_Case =>
    /\ last.op \in HttpRoutes => last.ret = Some(404)
    /\ last.op \in CliCommands => last.ret # Some(0)

\* C24: list_elements and list_links fail with an input-validation error and
\* read nothing for every limit below 1 and every offset below 0, and for an
\* order_by or order_dir that is not accepted, whichever filters are given.
C24_BadPage ==
  \/ ~IsNone(last.args.limit) /\ Val(last.args.limit) < 1
  \/ ~IsNone(last.args.offset) /\ Val(last.args.offset) < 0

C24_BadOrder ==
  \/ /\ last.op = "list_elements"
     /\ last.args.order_by \notin {"updated_at", "created_at", "title", "type", "format"}
  \/ /\ last.op = "list_links"
     /\ last.args.order_by \notin {"updated_at", "created_at", "rel"}
  \/ last.args.order_dir \notin {"ASC", "DESC", "asc", "desc"}

C24_Case ==
  /\ last.op \in {"list_elements", "list_links"}
  /\ C24_BadPage \/ C24_BadOrder

C24_BadListingRejected ==
  C24_Case =>
    /\ IsValidationError(last.err)
    /\ last.ret = None
    /\ conn = prev

\* A list_links with an offset of -1 and no limit, sound order arguments and
\* no filter, has been made on a store that holds a link.
C24_Witness ==
  /\ C24_Case
  /\ last.op = "list_links"
  /\ IsNone(last.args.limit) /\ last.args.offset = Some(-1)
  /\ ~C24_BadOrder
  /\ IsNone(last.args.src_id) /\ IsNone(last.args.rel)
  /\ prev.element_links # {}

\* C25: list_elements(tag=t) without pagination returns exactly the elements
\* that carry the normalized form of t, each once and no others; with a type
\* (or format) filter, exactly those of them that have that type (or format).
C25_Case ==
  /\ last.op = "list_elements"
  /\ ~IsNone(last.args.tag)
  /\ IsNone(last.args.limit) /\ IsNone(last.args.offset)

C25_Carriers ==
  {e \in prev.elements :
     /\ HasTag(prev, e.id, strip(Val(last.args.tag)))
     /\ ~IsNone(last.args.type) => e.type = Val(last.args.type)
     /\ ~IsNone(last.args.format) => e.format = Val(last.args.format)}

C25_TagListingExact ==
  C25_Case =>
    /\ last.err = Ok
    /\ ~IsNone(last.ret)
    /\ LET rows == Val(last.ret)
       IN  /\ Len(rows) = Cardinality(C25_Carriers)
           /\ \A e \in C25_Carriers :
                \E i \in 1..Len(rows) : rows[i] = ListedElement(prev, e, FALSE)
           /\ \A i \in 1..Len(rows) :
                \E e \in C25_Carriers : rows[i].id = e.id

\* A listing by the tag " a" and a type has returned one element that has two
\* tags, while the other element has the tag too.
C25_Witness ==
  /\ C25_Case
  /\ last.args.tag = Some(<<" ", "a">>)
  /\ ~IsNone(last.args.type)
  /\ \E e \in C25_Carriers : Cardinality(tags_of(prev, e.id)) = 2
  /\ \E e \in prev.elements \ C25_Carriers : HasTag(prev, e.id, TagA)

\* C26: list_links_for_element(e, direction) without limit returns exactly
\* the links with src_id = e for "out", exactly those with dst_id = e for
\* "in", and for "both" exactly the union of the two, each link once; a rel
\* filter keeps exactly the links of that relation.
C26_Case ==
  /\ last.op = "list_links_for_element"
  /\ IsNone(last.args.limit)

C26_Out == {l \in prev.element_links : l.src_id = last.args.id}
C26_In == {l \in prev.element_links : l.dst_id = last.args.id}

C26_Expected ==
  LET all == CASE last.args.direction = "out" -> C26_Out
               [] last.args.direction = "IN" -> C26_In
               [] OTHER -> C26_Out \cup C26_In
  IN  {l \in all : ~IsNone(last.args.rel) => l.rel = Val(last.args.rel)}

C26_LinksForElementExact ==
  C26_Case =>
    /\ last.err = Ok
    /\ ~IsNone(last.ret)
    /\ LET rows == Val(last.ret)
       IN  /\ Len(rows) = Cardinality(C26_Expected)
           /\ {rows[i] : i \in 1..Len(rows)} = C26_Expected

\* A listing in both directions has returned a link that leaves the element
\* and one that enters it, while the store holds a link that is of another
\* relation than the one asked for.
C26_Witness ==
  /\ C26_Case
  /\ last.args.direction = "both"
  /\ ~IsNone(last.args.rel)
  /\ C26_Expected \cap C26_Out # {}
  /\ C26_Expected \cap C26_In # {}
  /\ prev.element_links \ C26_Expected # {}

\* C27: init_db is idempotent: run on a store that is initialized and holds
\* any elements, tags and links, it raises no error and leaves every row of
\* the three tables as it was.
C27_Case ==
  /\ last.op = "init_db"
  /\ prev # NoTables

C27_InitDbIdempotent ==
  C27_Case =>
    /\ last.err = Ok
    /\ conn = prev

\* init_db has run on a store that holds elements, a tag and a link.
C27_Witness ==
  /\ C27_Case
  /\ prev.elements # {}
  /\ prev.element_tags # {}
  /\ prev.element_links # {}

\* C28: validate_link_semantics reports its failures in a fixed precedence:
\* an invalid rel, then a self-link (also of an id that does not exist),
\* then a missing source, a missing destination, an incompatible source type,
\* an incompatible destination type.  A create_link reports exactly the first
\* of these that applies, and stores nothing.
C28_Failures ==
  LET a == last.args
  IN  <<a.rel \notin LINK_RELATIONS,
        a.src_id = a.dst_id,
        ~HasElement(prev, a.src_id),
        ~HasElement(prev, a.dst_id),
        /\ a.rel \in LINK_RELATIONS /\ HasElement(prev, a.src_id)
        /\ ElementRow(prev, a.src_id).type \notin TableSrc(a.rel),
        /\ a.rel \in LINK_RELATIONS /\ HasElement(prev, a.dst_id)
        /\ ElementRow(prev, a.dst_id).type \notin TableDst(a.rel)>>

C28_Reports ==
  <<ValueError("Invalid rel"),
    SelfLink,
    ValueError("src_id not found"),
    ValueError("dst_id not found"),
    ValueError("rel requires src type in allowed_src"),
    ValueError("rel requires dst type in allowed_dst")>>

C28_Case ==
  /\ last.op = "create_link"
  /\ \E i \in 1..6 : C28_Failures[i]

C28_FirstFailureReported ==
  C28_Case =>
    /\ LET first == CHOOSE i \in 1..6 :
                      C28_Failures[i] /\ \A j \in 1..(i - 1) : ~C28_Failures[j]
       IN  last.err = C28_Reports[first]
    /\ conn = prev

\* A call with two things wrong has been made: a self-link of an id that
\* does not exist, a link between two ids that do not exist, or a link whose
\* source and destination types are both incompatible.
C28_Witness ==
  /\ C28_Case
  /\ \/ C28_Failures[2] /\ C28_Failures[3] /\ ~C28_Failures[1]
     \/ C28_Failures[3] /\ C28_Failures[4] /\ ~C28_Failures[1] /\ ~C28_Failures[2]
     \/ C28_Failures[5] /\ C28_Failures[6]

\* C29: update_link called with only a note on a link that exists never runs
\* the semantic validation: it succeeds whatever the types of the link's
\* endpoints now are, sets the note, refreshes updated_at and leaves rel as
\* it was.
C29_Case ==
  /\ last.op = "update_link"
  /\ IsNone(last.args.rel)
  /\ ~IsNone(last.args.note)
  /\ HasLink(prev, last.args.id)

C29_NoteOnlyUpdateSucceeds ==
  C29_Case =>
    /\ last.err = Ok
    /\ last.ret = Some(Bool(TRUE))
    /\ HasLink(conn, last.args.id)
    /\ LinkRow(conn, last.args.id).note = Val(last.args.note)
    /\ LinkRow(conn, last.args.id).updated_at = last.at
    /\ LinkRow(conn, last.args.id).rel = LinkRow(prev, last.args.id).rel

\* A note has been set, a second after the link was written, on a "proves"
\* link whose source is no longer a proof.
C29_Witness ==
  /\ C29_Case
  /\ LinkRow(prev, last.args.id).rel = "proves"
  /\ ElementRow(prev, LinkRow(prev, last.args.id).src_id).type # "proof"
  /\ LinkRow(prev, last.args.id).updated_at # last.at
  /\ LinkRow(prev, last.args.id).note # Val(last.args.note)

\* C30: update_link never changes a link's id, src_id, dst_id or created_at;
\* the stored rel is kept when rel is not supplied, the stored note when note
\* is not supplied.
C30_Case ==
  /\ last.op = "update_link"
  /\ HasLink(prev, last.args.id)

C30_UpdateLinkFrame ==
  C30_Case =>
    /\ HasLink(conn, last.args.id)
    /\ LET old == LinkRow(prev, last.args.id)
           new == LinkRow(conn, last.args.id)
       IN  /\ new.id = old.id
           /\ new.src_id = old.src_id
           /\ new.dst_id = old.dst_id
           /\ new.created_at = old.created_at
           /\ IsNone(last.args.rel) => new.rel = old.rel
           /\ IsNone(last.args.note) => new.note = old.note

\* An update_link with a relation and no note has changed the relation of a
\* link that was created a second before and has a note.
C30_Witness ==
  /\ C30_Case
  /\ last.err = Ok
  /\ ~IsNone(last.args.rel) /\ IsNone(last.args.note)
  /\ LinkRow(prev, last.args.id).rel # Val(last.args.rel)
  /\ LinkRow(prev, last.args.id).note # ""
  /\ LinkRow(prev, last.args.id).created_at # last.at

\* C31: update_link(id, rel=r) where another link with the same src_id and
\* dst_id already has relation r fails with a constraint error, and both
\* links keep their rel, note and updated_at.
C31_Others ==
  {l \in prev.element_links :
     /\ l.id # last.args.id
     /\ l.src_id = LinkRow(prev, last.args.id).src_id
     /\ l.dst_id = LinkRow(prev, last.args.id).dst_id
     /\ l.rel = Val(last.args.rel)}

C31_Case ==
  /\ last.op = "update_link"
  /\ ~IsNone(last.args.rel)
  /\ HasLink(prev, last.args.id)
  /\ C31_Others # {}

C31_DuplicateRelRejected ==
  C31_Case =>
    /\ last.err.exc = "sqlite3.IntegrityError"
    /\ LinkRow(prev, last.args.id) \in conn.element_links
    /\ C31_Others \subseteq conn.element_links

\* C32: delete_element(id) leaves unchanged every other element, every tag
\* association of every other element, and every link in which id is
\* neither source nor destination.
C32_Untouched(d) ==
  [elements |-> {e \in d.elements : e.id # last.args.id},
   element_tags |-> {t \in d.element_tags : t.element_id # last.args.id},
   element_links |-> {l \in d.element_links :
                        l.src_id # last.args.id /\ l.dst_id # last.args.id}]

C32_Case == last.op = "delete_element"

C32_DeleteElementFrame ==
  C32_Case => C32_Untouched(conn) = C32_Untouched(prev)

\* An element that had a tag and a link has been deleted from a store that
\* holds another element with tags and a link between two other elements.
C32_Witness ==
  /\ C32_Case
  /\ last.ret = Some(Bool(TRUE))
  /\ tags_of(prev, last.args.id) # {}
  /\ \E l \in prev.element_links : last.args.id \in {l.src_id, l.dst_id}
  /\ C32_Untouched(prev).element_tags # {}
  /\ C32_Untouched(prev).element_links # {}

\* C33: set_tags, add_tags, remove_tags and clear_tags called for element e
\* change only tag associations of e: the tag sets of all other elements,
\* and all links, are unchanged.
C33_Case == last.op \in {"set_tags", "add_tags", "remove_tags", "clear_tags"}

C33_TagCallsFrame ==
  C33_Case =>
    /\ OtherTagRows(conn, last.args.id) = OtherTagRows(prev, last.args.id)
    /\ conn.element_links = prev.element_links
    /\ conn.elements = prev.elements

\* A tag call has changed the tags of an element that has a link, while
\* another element has tags.
C33_Witness ==
  /\ C33_Case
  /\ tags_of(conn, last.args.id) # tags_of(prev, last.args.id)
  /\ OtherTagRows(prev, last.args.id) # {}
  /\ \E l \in prev.element_links : last.args.id \in {l.src_id, l.dst_id}

\* ------------------------- SpecRace: create_link and delete_element, by statement
\* A caller of create_link or delete_element on a connection of its own, one
\* statement at a time.  pc: "idle", "fetch_src" and "fetch_dst" (the two
\* SELECTs of validate_link_semantics), "insert" (the INSERT is next),
\* "delete" (the DELETE is next), "commit", "done" (returned `ret`, or raised
\* `err`), "closed".  `intx`: its connection holds the write transaction,
\* whose tables are `view`.  `overlap`: the call began while another caller's
\* call was under way.
IdleLinker ==
  [pc |-> "idle", op |-> "", id |-> 0, src_id |-> 0, dst_id |-> 0, rel |-> "",
   src_type |-> None, dst_type |-> None, ts |-> 0, err |-> Ok, ret |-> None,
   intx |-> FALSE, view |-> EmptyDb, overlap |-> FALSE]

\* The tables a statement of caller c reads: those of its open transaction,
\* or the committed ones.
Sees(c) == IF callers[c].intx THEN callers[c].view ELSE disk

UnderWay(c) ==
  \E o \in DOMAIN callers \ {c} : callers[o].pc \notin {"idle", "done", "closed"}

\* create_link: validate_rel(rel), then validate_link_semantics as far as
\* its first SELECT.
CreateLinkBegin(c, IdS, SrcS, DstS, RelS) ==
  \E link_id \in IdS, src_id \in SrcS, dst_id \in DstS, rel \in RelS :
    /\ callers[c].pc = "idle"
    /\ LET err == IF validate_rel(rel) # Ok THEN validate_rel(rel)
                  ELSE IF src_id = dst_id
                    THEN ValueError("src_id and dst_id must differ")
                  ELSE Ok
       IN  callers' = [callers EXCEPT ![c] =
             [@ EXCEPT !.pc = IF err # Ok THEN "done" ELSE "fetch_src",
                       !.op = "create_link", !.id = link_id,
                       !.src_id = src_id, !.dst_id = dst_id, !.rel = rel,
                       !.err = err, !.overlap = UnderWay(c)]]
    /\ UNCHANGED <<conn, disk, now, last, prev>>

\* validate_link_semantics: src_type = _fetch_type(conn, src_id)
CreateLinkFetchSrc(c) ==
  /\ callers[c].pc = "fetch_src"
  /\ callers' = [callers EXCEPT ![c] =
       [@ EXCEPT !.pc = "fetch_dst",
                 !.src_type = fetch_type(Sees(c), callers[c].src_id)]]
  /\ UNCHANGED <<conn, disk, now, last, prev>>

\* validate_link_semantics: dst_type = _fetch_type(conn, dst_id) and the
\* tests on the two types; then link_id and ts = now_utc_iso().
CreateLinkFetchDst(c) ==
  /\ callers[c].pc = "fetch_dst"
  /\ LET me == callers[c]
         src_type == me.src_type
         dst_type == fetch_type(Sees(c), me.dst_id)
         err == IF IsNone(src_type) THEN ValueError("src_id not found")
                ELSE IF IsNone(dst_type) THEN ValueError("dst_id not found")
                ELSE IF Val(src_type) \notin REL_RULES[me.rel][1]
                  THEN ValueError("rel requires src type in allowed_src")
                ELSE IF Val(dst_type) \notin REL_RULES[me.rel][2]
                  THEN ValueError("rel requires dst type in allowed_dst")
                ELSE Ok
     IN  callers' = [callers EXCEPT ![c] =
           [@ EXCEPT !.pc = IF err # Ok THEN "done" ELSE "insert",
                     !.dst_type = dst_type, !.ts = now, !.err = err]]
  /\ UNCHANGED <<conn, disk, now, last, prev>>

\* INSERT INTO element_links ... of one row into the tables d: the primary
\* key, the unique index and the foreign keys are checked by the statement.
insert_link(d, row) ==
  IF HasLink(d, row.id)
    THEN Raised(IntegrityError("UNIQUE constraint failed: element_links.id"), d)
  ELSE IF ~uq_links_src_dst_rel(d.element_links, row)
    THEN Raised(IntegrityError(
           "UNIQUE constraint failed: element_links.src_id, element_links.dst_id, element_links.rel"), d)
  ELSE IF ~(fk_ok(d, row.src_id) /\ fk_ok(d, row.dst_id))
    THEN Raised(IntegrityError("FOREIGN KEY constraint failed"), d)
  ELSE Returned(None, WithLinks(d, d.element_links \cup {row}), FALSE)

\* create_link: the INSERT.  It takes the write transaction, for which no
\* other connection may hold one, and keeps it when the statement fails.
CreateLinkInsert(c) ==
  /\ callers[c].pc = "insert"
  /\ ~write_locked(c)
  /\ LET me == callers[c]
         row == [id |-> me.id, src_id |-> me.src_id, dst_id |-> me.dst_id,
                 rel |-> me.rel, note |-> "",
                 created_at |-> me.ts, updated_at |-> me.ts]
         r == insert_link(Sees(c), row)
     IN  callers' = [callers EXCEPT ![c] =
           [@ EXCEPT !.pc = IF r.err # Ok THEN "done" ELSE "commit",
                     !.err = r.err, !.intx = TRUE, !.view = r.conn]]
  /\ UNCHANGED <<conn, disk, now, last, prev>>

\* delete_element is called.
DeleteElementBegin(c, IdS) ==
  \E element_id \in IdS :
    /\ callers[c].pc = "idle"
    /\ callers' = [callers EXCEPT ![c] =
         [@ EXCEPT !.pc = "delete", !.op = "delete_element",
                   !.id = element_id, !.overlap = UnderWay(c)]]
    /\ UNCHANGED <<conn, disk, now, last, prev>>

\* delete_element: DELETE FROM elements WHERE id = ?, with its cascade.
DeleteElementDelete(c) ==
  /\ callers[c].pc = "delete"
  /\ ~write_locked(c)
  /\ callers' = [callers EXCEPT ![c] =
       [@ EXCEPT !.pc = "commit", !.intx = TRUE,
                 !.view = delete_cascade(Sees(c), callers[c].id),
                 !.ret = Some(Bool(HasElement(Sees(c), callers[c].id)))]]
  /\ UNCHANGED <<conn, disk, now, last, prev>>

\* The INSERT or the DELETE finds the database locked until its timeout: it
\* raises.
WriteBusy(c) ==
  /\ callers[c].pc \in {"insert", "delete"}
  /\ write_locked(c)
  /\ callers' = [callers EXCEPT ![c] =
       [@ EXCEPT !.pc = "done", !.ret = None,
                 !.err = OperationalError("database is locked")]]
  /\ UNCHANGED <<conn, disk, now, last, prev>>

\* conn.commit() of create_link and of delete_element, and the return.
WriteCommit(c) ==
  /\ callers[c].pc = "commit"
  /\ disk' = callers[c].view
  /\ conn' = Seen(callers[c].view)
  /\ callers' = [callers EXCEPT ![c] =
       [@ EXCEPT !.pc = "done", !.intx = FALSE, !.view = EmptyDb,
                 !.ret = IF callers[c].op = "create_link"
                         THEN Some(callers[c].id) ELSE callers[c].ret]]
  /\ UNCHANGED <<now, last, prev>>

\* The caller closes its connection after the call: what its transaction
\* holds is rolled back.
CloseConnection(c) ==
  /\ callers[c].pc = "done"
  /\ callers' = [callers EXCEPT ![c] =
       [@ EXCEPT !.pc = "closed", !.intx = FALSE, !.view = EmptyDb]]
  /\ UNCHANGED <<conn, disk, now, last, prev>>

\* A proof (element 1) and a theorem (element 2), no link.  Two callers,
\* each on its own connection, make one call each, create_link or
\* delete_element, their statements interleaved in every way SQLite allows.
RelRace == {"proves", "related"}

InitRace ==
  /\ prev = WithElements(EmptyDb, {NewElement(1, "proof")})
  /\ conn = WithElements(EmptyDb, {NewElement(1, "proof"), NewElement(2, "theorem")})
  /\ disk = conn
  /\ now = 0
  /\ last = [op |-> "create_element",
             args |-> [id |-> 2, type |-> "theorem", title |-> <<"t">>,
                       body |-> <<"b">>, format |-> Some("plain"), tags |-> None],
             err |-> Ok, ret |-> Some(2), at |-> 0]
  /\ callers = [c \in Callers |-> IdleLinker]

NextRace ==
  \/ \E c \in Callers : CreateLinkBegin(c, LinkIds, ElemIds, ElemIds, RelRace)
  \/ \E c \in Callers : CreateLinkFetchSrc(c)
  \/ \E c \in Callers : CreateLinkFetchDst(c)
  \/ \E c \in Callers : CreateLinkInsert(c)
  \/ \E c \in Callers : DeleteElementBegin(c, ElemIds)
  \/ \E c \in Callers : DeleteElementDelete(c)
  \/ \E c \in Callers : WriteBusy(c)
  \/ \E c \in Callers : WriteCommit(c)
  \/ \E c \in Callers : CloseConnection(c)

SpecRace == InitRace /\ [][NextRace]_vars

\* C34: when two callers on separate connections run create_link with the
\* same (src_id, dst_id, rel) concurrently, under every interleaving at most
\* one call succeeds, the other fails with a duplicate/constraint or busy
\* error, and exactly one link with that triple is stored.
C34_Triple(c) == <<callers[c].src_id, callers[c].dst_id, callers[c].rel>>

C34_Ended(c) == callers[c].pc \in {"done", "closed"}

C34_Succeeded(c) == C34_Ended(c) /\ callers[c].err = Ok

\* Both callers have called create_link for one triple that the link rules
\* allow between the two elements, and both calls have ended.
C34_Case ==
  /\ \A c \in Callers : callers[c].op = "create_link" /\ C34_Ended(c)
  /\ C34_Triple("A") = C34_Triple("B")
  /\ validate_link_semantics(disk, callers["A"].src_id, callers["A"].dst_id,
                             callers["A"].rel) = Ok

C34_OneLinkPerTriple ==
  C34_Case =>
    /\ Cardinality({c \in Callers : C34_Succeeded(c)}) = 1
    /\ \A c \in Callers :
         ~C34_Succeeded(c) =>
           callers[c].err.exc \in {"sqlite3.IntegrityError", "sqlite3.OperationalError"}
    /\ Cardinality({l \in disk.element_links :
                      <<l.src_id, l.dst_id, l.rel>> = C34_Triple("A")}) = 1

\* Two create_link calls for one triple and with different link ids have
\* overlapped; one has returned and the other has raised the error of the
\* unique index.
C34_Witness ==
  /\ C34_Case
  /\ callers["A"].id # callers["B"].id
  /\ \E c \in Callers : callers[c].overlap
  /\ \E c \in Callers :
       callers[c].err = IntegrityError(
         "UNIQUE constraint failed: element_links.src_id, element_links.dst_id, element_links.rel")

\* C35: create_link reads the endpoint types and then inserts in a later
\* statement; under every interleaving of create_link with a concurrent
\* delete_element of one of its endpoints on another connection, no
\* committed state holds a link whose src_id or dst_id names a deleted
\* element: either the link is created and then cascaded away, or the
\* insert fails.
C35_Dangling(d) ==
  {l \in d.element_links : ~HasElement(d, l.src_id) \/ ~HasElement(d, l.dst_id)}

\* Caller c has called create_link and caller o delete_element of one of
\* its endpoints.
C35_Case(c, o) ==
  /\ callers[c].op = "create_link"
  /\ callers[o].op = "delete_element"
  /\ callers[o].id \in {callers[c].src_id, callers[c].dst_id}

C35_NoDanglingLink ==
  /\ C35_Dangling(disk) = {}
  /\ \A c, o \in Callers :
       (/\ C35_Case(c, o)
        /\ C34_Ended(c) /\ C34_Ended(o)
        /\ callers[o].ret = Some(Bool(TRUE))) =>
         /\ ~HasElement(disk, callers[o].id)
         /\ ~HasLink(disk, callers[c].id)
         /\ callers[c].err = Ok \/ callers[c].ret = None

\* create_link has read the types of both endpoints, delete_element on
\* another connection has then deleted one of them, and the INSERT has
\* failed on its foreign key.
C35_Witness ==
  \E c, o \in Callers :
    /\ C35_Case(c, o)
    /\ callers[o].ret = Some(Bool(TRUE)) /\ C34_Ended(o)
    /\ ~IsNone(callers[c].src_type) /\ ~IsNone(callers[c].dst_type)
    /\ callers[c].err = IntegrityError("FOREIGN KEY constraint failed")

====
